---------------------------- MODULE Spec2Model ----------------------------
(***************************************************************************)
(* Model of tds_fdw (src/src/tds_fdw.c), a PostgreSQL foreign data wrapper *)
(* over DB-Library.                                                        *)
(*                                                                         *)
(* Conventions                                                             *)
(*  - A C string is a sequence of one-character strings; a char* that may  *)
(*    be NULL is NULL (the empty tuple) or Ptr(s).                         *)
(*  - ereport(ERROR, ...) does not return (PostgreSQL unwinds to the       *)
(*    caller of the callback): a handler that raises stops at that         *)
(*    statement, and what it had acquired stays as it is.                  *)
(*  - palloc never returns NULL (it raises by itself), so the branches of  *)
(*    the source that test its result are not reachable and not modelled.  *)
(*  - Every callback of the wrapper runs to completion before the host     *)
(*    calls another one (single-threaded, blocking calls), so each         *)
(*    callback is one action; the answers of DB-Library to the calls made  *)
(*    inside it are the action's inputs.                                   *)
(***************************************************************************)
EXTENDS Integers, Sequences, FiniteSets, TLC

VARIABLES
    catalog,     \* options stored for the foreign table, its server, the user mapping
    fdw_state,   \* node->fdw_state: NULL or Ptr(TdsFdwExecutionState)
    slot,        \* node->ss.ss_ScanTupleSlot: NULL (cleared) or Ptr(values)
    last,        \* the callback that ran last: its name, DB-Library calls, error
    issued,      \* DB-Library function -> number of calls made in this scan / plan
    host,        \* what the host has called so far (calls to the callbacks)
    baserel,     \* RelOptInfo fields rows, tuples
    path,        \* NULL or Ptr(path added by tdsGetForeignPaths)
    vin,         \* arguments of tds_fdw_validator: options_list, catalog
    vout,        \* NULL or Ptr(outcome of tds_fdw_validator)
    sess,        \* caller -> its phase and fdw_state, for callers sharing a backend
    dblib        \* DB-Library's state in the backend process: what the calls made it

vars ==
    <<catalog, fdw_state, slot, last, issued, host, baserel, path, vin, vout, sess, dblib>>

(***************************************************************************)
(* Bounds                                                                  *)
(***************************************************************************)
MaxOpts == 2     \* longest options_list handed to the validator
MaxNext == 3     \* calls of tdsIterateForeignScan per scan
MaxEnd == 2      \* calls of tdsEndForeignScan per scan
MaxReScan == 1   \* calls of tdsReScanForeignScan per scan

(***************************************************************************)
(* C strings and pointers                                                  *)
(***************************************************************************)
NULL == <<>>

Ptr(x) == <<x>>

Deref(p) == p[1]

strlen(s) == Len(s)

Min(a, b) == IF a < b THEN a ELSE b

\* what snprintf(buf, size, "%s%s", a, b) leaves in buf: at most size-1 characters
snprintf_ss(size, a, b) == SubSeq(a \o b, 1, Min(Len(a \o b), size - 1))

DigitChars == <<"0", "1", "2", "3", "4", "5", "6", "7", "8", "9">>

IsDigit(c) == \E d \in 1..10 : DigitChars[d] = c

DigitVal(c) == (CHOOSE d \in 1..10 : DigitChars[d] = c) - 1

IsSpace(c) == c \in {" ", "\t", "\n"}

RECURSIVE AtoiDigits(_, _)
AtoiDigits(s, acc) ==
    IF s = <<>> \/ ~IsDigit(Head(s)) THEN acc
    ELSE AtoiDigits(Tail(s), acc * 10 + DigitVal(Head(s)))

RECURSIVE SkipSpace(_)
SkipSpace(s) ==
    IF s # <<>> /\ IsSpace(Head(s)) THEN SkipSpace(Tail(s)) ELSE s

\* atoi: leading white space, an optional sign, then digits up to the first non-digit
atoi(str) ==
    LET s == SkipSpace(str) IN
    IF s = <<>> THEN 0
    ELSE IF Head(s) = "-" THEN 0 - AtoiDigits(Tail(s), 0)
    ELSE IF Head(s) = "+" THEN AtoiDigits(Tail(s), 0)
    ELSE AtoiDigits(s, 0)

RECURSIVE NatToStr(_)
NatToStr(n) ==
    IF n < 10 THEN <<DigitChars[n + 1]>>
    ELSE NatToStr(n \div 10) \o <<DigitChars[(n % 10) + 1]>>

\* "%i"
IntToStr(n) == IF n < 0 THEN <<"-">> \o NatToStr(0 - n) ELSE NatToStr(n)

(***************************************************************************)
(* Errors: ereport(ERROR, (errcode(..), errmsg(..), errhint(..)))          *)
(***************************************************************************)
NoError == [sqlstate |-> "none", msg |-> "", arg |-> <<>>, hint |-> <<>>]

Error(code, m, a, h) == [sqlstate |-> code, msg |-> m, arg |-> a, hint |-> h]

Raised(e) == e.sqlstate # "none"

(***************************************************************************)
(* Options                                                                 *)
(***************************************************************************)
DefElem(n, v) == [defname |-> n, arg |-> v]

defGetString(def) == def.arg

valid_options ==
    << [optname |-> "servername",    optcontext |-> "ForeignServerRelationId"],
       [optname |-> "language",      optcontext |-> "ForeignServerRelationId"],
       [optname |-> "character_set", optcontext |-> "ForeignServerRelationId"],
       [optname |-> "port",          optcontext |-> "ForeignServerRelationId"],
       [optname |-> "username",      optcontext |-> "UserMappingRelationId"],
       [optname |-> "password",      optcontext |-> "UserMappingRelationId"],
       [optname |-> "database",      optcontext |-> "ForeignTableRelationId"],
       [optname |-> "query",         optcontext |-> "ForeignTableRelationId"],
       [optname |-> "table",         optcontext |-> "ForeignTableRelationId"] >>

\* tdsIsValidOption without the comparison of the context
tdsIsValidOption_AnyContext(option, context) ==
    \E i \in 1..Len(valid_options) : valid_options[i].optname = option

tdsIsValidOption(option, context) ==
    \E i \in 1..Len(valid_options) :
        /\ context = valid_options[i].optcontext
        /\ valid_options[i].optname = option

\* the errhint of the validator: buf after the loop over valid_options, as the
\* pieces appended to it; "<none>" when nothing was appended
RECURSIVE ValidOptionsHintFrom(_, _, _)
ValidOptionsHintFrom(i, context, buf) ==
    IF i > Len(valid_options) THEN buf
    ELSE IF context = valid_options[i].optcontext
         THEN ValidOptionsHintFrom(i + 1, context,
                 buf \o (IF Len(buf) > 0 THEN <<", ">> ELSE <<>>)
                     \o <<valid_options[i].optname>>)
         ELSE ValidOptionsHintFrom(i + 1, context, buf)

ValidOptionsHint(context) ==
    LET buf == ValidOptionsHintFrom(1, context, <<>>) IN
    IF Len(buf) > 0 THEN buf ELSE <<"<none>">>

tdsOptionSetInit ==
    [servername |-> NULL, language |-> NULL, character_set |-> NULL, port |-> 0,
     username |-> NULL, password |-> NULL, database |-> NULL, query |-> NULL,
     table |-> NULL]

\* errmsg("Redundant option: <name> (%s)", defGetString(def))
Redundant(def) ==
    Error("ERRCODE_SYNTAX_ERROR", "Redundant option", <<def.defname, defGetString(def)>>, <<>>)

\* the foreach loop of tds_fdw_validator; the result is the error raised, or
\* NoError when the whole list was accepted
RECURSIVE ValidatorLoop(_, _, _)
ValidatorLoop(options_list, context, option_set) ==
    IF options_list = <<>> THEN NoError
    ELSE
      LET def == Head(options_list)
          rest == Tail(options_list)
          n == def.defname
      IN
      IF ~tdsIsValidOption(n, context)
      THEN Error("ERRCODE_FDW_INVALID_OPTION_NAME", "Invalid option \"%s\"", <<n>>,
                 ValidOptionsHint(context))
      ELSE IF n = "servername" THEN
        IF option_set.servername # NULL THEN Redundant(def)
        ELSE ValidatorLoop(rest, context,
                [option_set EXCEPT !.servername = Ptr(defGetString(def))])
      ELSE IF n = "language" THEN
        IF option_set.language # NULL THEN Redundant(def)
        ELSE ValidatorLoop(rest, context,
                [option_set EXCEPT !.language = Ptr(defGetString(def))])
      ELSE IF n = "character_set" THEN
        IF option_set.character_set # NULL THEN Redundant(def)
        ELSE ValidatorLoop(rest, context,
                [option_set EXCEPT !.character_set = Ptr(defGetString(def))])
      ELSE IF n = "port" THEN
        IF option_set.port # 0 THEN Redundant(def)
        ELSE ValidatorLoop(rest, context,
                [option_set EXCEPT !.port = atoi(defGetString(def))])
      ELSE IF n = "username" THEN
        IF option_set.username # NULL THEN Redundant(def)
        ELSE ValidatorLoop(rest, context,
                [option_set EXCEPT !.username = Ptr(defGetString(def))])
      ELSE IF n = "password" THEN
        IF option_set.password # NULL THEN Redundant(def)
        ELSE ValidatorLoop(rest, context,
                [option_set EXCEPT !.password = Ptr(defGetString(def))])
      ELSE IF n = "database" THEN
        IF option_set.database # NULL THEN Redundant(def)
        ELSE ValidatorLoop(rest, context,
                [option_set EXCEPT !.database = Ptr(defGetString(def))])
      ELSE IF n = "query" THEN
        IF option_set.table # NULL
        THEN Error("ERRCODE_SYNTAX_ERROR",
                   "Conflicting options: query cannot be used with table", <<>>, <<>>)
        ELSE IF option_set.query # NULL THEN Redundant(def)
        ELSE ValidatorLoop(rest, context,
                [option_set EXCEPT !.query = Ptr(defGetString(def))])
      ELSE IF n = "table" THEN
        IF option_set.query # NULL
        THEN Error("ERRCODE_SYNTAX_ERROR",
                   "Conflicting options: table cannot be used with query", <<>>, <<>>)
        ELSE IF option_set.table # NULL THEN Redundant(def)
        ELSE ValidatorLoop(rest, context,
                [option_set EXCEPT !.table = Ptr(defGetString(def))])
      ELSE ValidatorLoop(rest, context, option_set)

tds_fdw_validator(options_list, context) ==
    ValidatorLoop(options_list, context, tdsOptionSetInit)

(***************************************************************************)
(* tdsGetOptions: the options of the table, its server and the user        *)
(* mapping, concatenated in that order and folded into one option set      *)
(***************************************************************************)
DEFAULT_SERVERNAME == <<"1", "2", "7", ".", "0", ".", "0", ".", "1">>

RECURSIVE GetOptionsLoop(_, _)
GetOptionsLoop(options, option_set) ==
    IF options = <<>> THEN option_set
    ELSE
      LET def == Head(options)
          n == def.defname
          next_set ==
            IF n = "servername" THEN [option_set EXCEPT !.servername = Ptr(defGetString(def))]
            ELSE IF n = "language" THEN [option_set EXCEPT !.language = Ptr(defGetString(def))]
            ELSE IF n = "character_set"
                 THEN [option_set EXCEPT !.character_set = Ptr(defGetString(def))]
            ELSE IF n = "port" THEN [option_set EXCEPT !.port = atoi(defGetString(def))]
            ELSE IF n = "username" THEN [option_set EXCEPT !.username = Ptr(defGetString(def))]
            ELSE IF n = "password" THEN [option_set EXCEPT !.password = Ptr(defGetString(def))]
            ELSE IF n = "database" THEN [option_set EXCEPT !.database = Ptr(defGetString(def))]
            ELSE IF n = "query" THEN [option_set EXCEPT !.query = Ptr(defGetString(def))]
            ELSE IF n = "table" THEN [option_set EXCEPT !.table = Ptr(defGetString(def))]
            ELSE option_set
      IN GetOptionsLoop(Tail(options), next_set)

\* result: the error raised (NoError if none) and the option set filled in
tdsGetOptions(cat) ==
    LET options == cat.f_table \o cat.f_server \o cat.f_mapping
        looped == GetOptionsLoop(options, tdsOptionSetInit)
        defaulted == IF looped.servername = NULL
                     THEN [looped EXCEPT !.servername = Ptr(DEFAULT_SERVERNAME)]
                     ELSE looped
    IN
    IF defaulted.table = NULL /\ defaulted.query = NULL
    THEN [err |-> Error("ERRCODE_SYNTAX_ERROR",
                        "Either a table or a query must be specified", <<>>, <<>>),
          option_set |-> defaulted]
    ELSE [err |-> NoError, option_set |-> defaulted]

(***************************************************************************)
(* DB-Library calls.  A call is recorded with its argument and its answer. *)
(***************************************************************************)
Call(f, a, r) == [fn |-> f, arg |-> a, ret |-> r]

Fns ==
    {"dbinit", "dberrhandle", "dbmsghandle", "dblogin", "DBSETLUSER", "DBSETLPWD",
     "DBSETLCHARSET", "DBSETLNATLANG", "dbopen", "dbuse", "dbcmd", "dbsqlexec",
     "dbresults", "dbnextrow", "DBCOUNT", "dbnumcols", "dbcoltype", "dbdatlen",
     "dbdata", "dbwillconvert", "dbconvert", "dbclose", "dbloginfree", "dbexit"}

RECURSIVE CountFn(_, _)
CountFn(calls, f) ==
    IF calls = <<>> THEN 0
    ELSE (IF Head(calls).fn = f THEN 1 ELSE 0) + CountFn(Tail(calls), f)

NoCalls == [f \in Fns |-> 0]

Tally(counts, calls) == [f \in Fns |-> counts[f] + CountFn(calls, f)]

\* handles returned by dblogin and dbopen; NULL_HANDLE is their NULL
LOGINREC == "LOGINREC"

DBPROCESS == "DBPROCESS"

NULL_HANDLE == "NULL"

query_prefix == <<"S", "E", "L", "E", "C", "T", " ", "*", " ", "F", "R", "O", "M", " ">>

\* the buffer for the query without the byte for the terminator
QueryBufLen_NoTerminator(table) == strlen(query_prefix) + strlen(table)

\* size of the buffer palloc'ed for the query built from the table name
QueryBufLen(table) == strlen(query_prefix) + strlen(table) + 1

\* size of the buffer palloc'ed for conn_string
ConnStringBufLen(servername) == strlen(servername) + 10

\* what sprintf writes for conn_string (without the terminator)
ConnString(option_set) ==
    IF option_set.port # 0
    THEN Deref(option_set.servername) \o <<":">> \o IntToStr(option_set.port)
    ELSE Deref(option_set.servername)

(***************************************************************************)
(* tdsSetupConnection.  env holds DB-Library's answers to dbopen and dbuse.*)
(* Result: the calls made, the error raised (NoError if it returned 0),    *)
(* *dbproc and option_set->query on return.                                *)
(***************************************************************************)
\* tdsSetupConnection without the test if (option_set->database)
tdsSetupConnection_AlwaysUse(option_set, login, env) ==
    LET c_login ==
            <<Call("DBSETLUSER", option_set.username, "SUCCEED"),
              Call("DBSETLPWD", option_set.password, "SUCCEED")>>
            \o (IF option_set.character_set # NULL
                THEN <<Call("DBSETLCHARSET", option_set.character_set, "SUCCEED")>>
                ELSE <<>>)
            \o (IF option_set.language # NULL
                THEN <<Call("DBSETLNATLANG", option_set.language, "SUCCEED")>>
                ELSE <<>>)
        conn_string == ConnString(option_set)
        c_open == c_login \o <<Call("dbopen", conn_string, env.dbopen)>>
        c_use == c_open \o <<Call("dbuse", option_set.database, env.dbuse)>>
        c_done == c_use
        query == IF option_set.query # NULL
                 THEN option_set.query
                 ELSE Ptr(snprintf_ss(QueryBufLen(Deref(option_set.table)),
                                      query_prefix, Deref(option_set.table)))
    IN
    IF env.dbopen = NULL_HANDLE
    THEN [calls |-> c_open,
          err |-> Error("ERRCODE_FDW_UNABLE_TO_ESTABLISH_CONNECTION",
                        "Failed to connect using connection string %s with user %s",
                        <<conn_string, option_set.username>>, <<>>),
          dbproc |-> NULL_HANDLE, query |-> option_set.query]
    ELSE IF env.dbuse = "FAIL"
    THEN [calls |-> c_use,
          err |-> Error("ERRCODE_FDW_UNABLE_TO_ESTABLISH_CONNECTION",
                        "Failed to select database %s", option_set.database, <<>>),
          dbproc |-> env.dbopen, query |-> option_set.query]
    ELSE [calls |-> c_done, err |-> NoError, dbproc |-> env.dbopen, query |-> query]

tdsSetupConnection(option_set, login, env) ==
    LET c_login ==
            <<Call("DBSETLUSER", option_set.username, "SUCCEED"),
              Call("DBSETLPWD", option_set.password, "SUCCEED")>>
            \o (IF option_set.character_set # NULL
                THEN <<Call("DBSETLCHARSET", option_set.character_set, "SUCCEED")>>
                ELSE <<>>)
            \o (IF option_set.language # NULL
                THEN <<Call("DBSETLNATLANG", option_set.language, "SUCCEED")>>
                ELSE <<>>)
        conn_string == ConnString(option_set)
        c_open == c_login \o <<Call("dbopen", conn_string, env.dbopen)>>
        c_use == c_open \o <<Call("dbuse", option_set.database, env.dbuse)>>
        c_done == IF option_set.database # NULL THEN c_use ELSE c_open
        query == IF option_set.query # NULL
                 THEN option_set.query
                 ELSE Ptr(snprintf_ss(QueryBufLen(Deref(option_set.table)),
                                      query_prefix, Deref(option_set.table)))
    IN
    IF env.dbopen = NULL_HANDLE
    THEN [calls |-> c_open,
          err |-> Error("ERRCODE_FDW_UNABLE_TO_ESTABLISH_CONNECTION",
                        "Failed to connect using connection string %s with user %s",
                        <<conn_string, option_set.username>>, <<>>),
          dbproc |-> NULL_HANDLE, query |-> option_set.query]
    ELSE IF option_set.database # NULL /\ env.dbuse = "FAIL"
    THEN [calls |-> c_use,
          err |-> Error("ERRCODE_FDW_UNABLE_TO_ESTABLISH_CONNECTION",
                        "Failed to select database %s", option_set.database, <<>>),
          dbproc |-> env.dbopen, query |-> option_set.query]
    ELSE [calls |-> c_done, err |-> NoError, dbproc |-> env.dbopen, query |-> query]

(***************************************************************************)
(* tdsBeginForeignScan.  env: DB-Library's answers to dbinit, dblogin,     *)
(* dbopen, dbuse.  Result: calls made, error raised, node->fdw_state.      *)
(***************************************************************************)
\* OpenLibrary with dberrhandle and dbmsghandle called after dblogin
OpenLibrary_HandlersAfterLogin(env) ==
    LET c_init == <<Call("dbinit", <<>>, env.dbinit)>>
        c_login == c_init \o <<Call("dblogin", <<>>, env.dblogin)>>
        c_hand == c_login \o <<Call("dberrhandle", <<"tds_err_handler">>, "SUCCEED"),
                               Call("dbmsghandle", <<"tds_msg_handler">>, "SUCCEED")>>
    IN
    IF env.dbinit = "FAIL"
    THEN [calls |-> c_init,
          err |-> Error("ERRCODE_FDW_OUT_OF_MEMORY",
                        "Failed to initialize DB-Library environment", <<>>, <<>>)]
    ELSE IF env.dblogin = NULL_HANDLE
    THEN [calls |-> c_login,
          err |-> Error("ERRCODE_FDW_OUT_OF_MEMORY",
                        "Failed to initialize DB-Library login structure", <<>>, <<>>)]
    ELSE [calls |-> c_hand, err |-> NoError]

\* dbinit, dberrhandle, dbmsghandle, dblogin: the same statements open the
\* session in tdsBeginForeignScan, tdsGetForeignRelSize and tdsPlanForeignScan
OpenLibrary(env) ==
    LET c_init == <<Call("dbinit", <<>>, env.dbinit)>>
        c_hand == c_init \o <<Call("dberrhandle", <<"tds_err_handler">>, "SUCCEED"),
                              Call("dbmsghandle", <<"tds_msg_handler">>, "SUCCEED")>>
        c_login == c_hand \o <<Call("dblogin", <<>>, env.dblogin)>>
    IN
    IF env.dbinit = "FAIL"
    THEN [calls |-> c_init,
          err |-> Error("ERRCODE_FDW_OUT_OF_MEMORY",
                        "Failed to initialize DB-Library environment", <<>>, <<>>)]
    ELSE IF env.dblogin = NULL_HANDLE
    THEN [calls |-> c_login,
          err |-> Error("ERRCODE_FDW_OUT_OF_MEMORY",
                        "Failed to initialize DB-Library login structure", <<>>, <<>>)]
    ELSE [calls |-> c_login, err |-> NoError]

\* tdsBeginForeignScan with tdsGetOptions called after dblogin instead of first
tdsBeginForeignScan_OptionsAfterLogin(cat, env) ==
    LET go == tdsGetOptions(cat)
        lib == OpenLibrary(env)
        sc == tdsSetupConnection(go.option_set, env.dblogin, env)
    IN
    IF Raised(lib.err) THEN [calls |-> lib.calls, err |-> lib.err, fdw_state |-> NULL]
    ELSE IF Raised(go.err) THEN [calls |-> lib.calls, err |-> go.err, fdw_state |-> NULL]
    ELSE IF Raised(sc.err)
    THEN [calls |-> lib.calls \o sc.calls, err |-> sc.err, fdw_state |-> NULL]
    ELSE [calls |-> lib.calls \o sc.calls, err |-> NoError,
          fdw_state |-> Ptr([login |-> env.dblogin, dbproc |-> sc.dbproc,
                             query |-> sc.query, first |-> 1, row |-> 0])]

tdsBeginForeignScan(cat, env) ==
    LET go == tdsGetOptions(cat)
        lib == OpenLibrary(env)
        sc == tdsSetupConnection(go.option_set, env.dblogin, env)
    IN
    IF Raised(go.err) THEN [calls |-> <<>>, err |-> go.err, fdw_state |-> NULL]
    ELSE IF Raised(lib.err) THEN [calls |-> lib.calls, err |-> lib.err, fdw_state |-> NULL]
    ELSE IF Raised(sc.err)
    THEN [calls |-> lib.calls \o sc.calls, err |-> sc.err, fdw_state |-> NULL]
    ELSE [calls |-> lib.calls \o sc.calls, err |-> NoError,
          fdw_state |-> Ptr([login |-> env.dblogin, dbproc |-> sc.dbproc,
                             query |-> sc.query, first |-> 1, row |-> 0])]

(***************************************************************************)
(* tdsConvertToCString.  col holds what DB-Library reports for the column: *)
(* type, len, data, willconvert (dbwillconvert), convert (dbconvert's      *)
(* return), text (what dbconvert writes on success) and junk (what the     *)
(* fresh palloc'ed buffer holds when nothing was written to it).           *)
(* Result: the calls made and dest.                                        *)
(***************************************************************************)
DestType(srctype) ==
    IF srctype \in {"SYBBINARY", "SYBVARBINARY"} THEN "SYBBINARY" ELSE "SYBCHAR"

RealDestLen(srctype, srclen) ==
    IF srctype \in {"SYBCHAR", "SYBVARCHAR", "SYBTEXT"} THEN srclen + 1
    ELSE IF srctype \in {"SYBBINARY", "SYBVARBINARY"} THEN srclen
    ELSE 1000

tdsConvertToCString(col) ==
    LET desttype == DestType(col.type)
        c_will == <<Call("dbwillconvert", <<col.type, desttype>>,
                         IF col.willconvert THEN "TRUE" ELSE "FALSE")>>
        c_conv == c_will \o <<Call("dbconvert", <<col.type, desttype>>, col.convert)>>
    IN
    IF col.willconvert
    THEN [calls |-> c_conv,
          dest |-> IF col.convert \in {"FAIL", "-1"} THEN Ptr(col.junk) ELSE Ptr(col.text)]
    ELSE [calls |-> c_will, dest |-> NULL]

\* the body of the for loop without the branch else if (src == NULL)
ColumnValue_NoPointerTest(col, ncol) ==
    LET c_meta == <<Call("dbcoltype", <<ncol + 1>>, col.type),
                    Call("dbdatlen", <<ncol + 1>>, col.len),
                    Call("dbdata", <<ncol + 1>>,
                         IF col.data = NULL THEN NULL_HANDLE ELSE "src")>>
        conv == tdsConvertToCString(col)
    IN
    IF col.len = 0 THEN [calls |-> c_meta, value |-> NULL]
    ELSE [calls |-> c_meta \o conv.calls, value |-> conv.dest]

\* the body of the for loop over the columns, for column ncol (from 0)
ColumnValue(col, ncol) ==
    LET c_meta == <<Call("dbcoltype", <<ncol + 1>>, col.type),
                    Call("dbdatlen", <<ncol + 1>>, col.len),
                    Call("dbdata", <<ncol + 1>>,
                         IF col.data = NULL THEN NULL_HANDLE ELSE "src")>>
        conv == tdsConvertToCString(col)
    IN
    IF col.len = 0 THEN [calls |-> c_meta, value |-> NULL]
    ELSE IF col.data = NULL THEN [calls |-> c_meta, value |-> NULL]
    ELSE [calls |-> c_meta \o conv.calls, value |-> conv.dest]

RECURSIVE RowValues(_, _)
RowValues(row, ncol) ==
    IF ncol >= Len(row) THEN [calls |-> <<>>, values |-> <<>>]
    ELSE LET cv == ColumnValue(row[ncol + 1], ncol)
             rest == RowValues(row, ncol + 1)
         IN [calls |-> cv.calls \o rest.calls, values |-> <<cv.value>> \o rest.values]

(***************************************************************************)
(* tdsIterateForeignScan.  env: DB-Library's answers to dbcmd, dbsqlexec,  *)
(* dbresults, dbnextrow and the row it delivers.  Result: calls made,      *)
(* error raised, *festate and the slot on exit.                            *)
(***************************************************************************)
\* FirstIteration with NO_MORE_RESULTS handled as in tdsGetRowCount, where it
\* raises no error
FirstIteration_NoMoreResultsOk(festate, env) ==
    LET c_cmd == <<Call("dbcmd", festate.query, env.dbcmd)>>
        c_exec == c_cmd \o <<Call("dbsqlexec", <<>>, env.dbsqlexec)>>
        c_res == c_exec \o <<Call("dbresults", <<>>, env.dbresults)>>
        ExecErr(m) == Error("ERRCODE_FDW_UNABLE_TO_CREATE_EXECUTION", m, festate.query, <<>>)
    IN
    IF env.dbcmd = "FAIL"
    THEN [calls |-> c_cmd, err |-> ExecErr("Failed to set current query to %s")]
    ELSE IF env.dbsqlexec = "FAIL"
    THEN [calls |-> c_exec, err |-> ExecErr("Failed to execute query %s")]
    ELSE IF env.dbresults = "FAIL"
    THEN [calls |-> c_res, err |-> ExecErr("Failed to get results from query %s")]
    ELSE IF env.dbresults \in {"NO_MORE_RESULTS", "SUCCEED"}
    THEN [calls |-> c_res, err |-> NoError]
    ELSE [calls |-> c_res,
          err |-> ExecErr("Unknown return code getting results from query %s")]

\* the block under if (festate->first), after festate->first = 0
FirstIteration(festate, env) ==
    LET c_cmd == <<Call("dbcmd", festate.query, env.dbcmd)>>
        c_exec == c_cmd \o <<Call("dbsqlexec", <<>>, env.dbsqlexec)>>
        c_res == c_exec \o <<Call("dbresults", <<>>, env.dbresults)>>
        ExecErr(m) == Error("ERRCODE_FDW_UNABLE_TO_CREATE_EXECUTION", m, festate.query, <<>>)
    IN
    IF env.dbcmd = "FAIL"
    THEN [calls |-> c_cmd, err |-> ExecErr("Failed to set current query to %s")]
    ELSE IF env.dbsqlexec = "FAIL"
    THEN [calls |-> c_exec, err |-> ExecErr("Failed to execute query %s")]
    ELSE IF env.dbresults = "FAIL"
    THEN [calls |-> c_res, err |-> ExecErr("Failed to get results from query %s")]
    ELSE IF env.dbresults = "NO_MORE_RESULTS"
    THEN [calls |-> c_res, err |-> ExecErr("There appears to be no results from query %s")]
    ELSE IF env.dbresults = "SUCCEED"
    THEN [calls |-> c_res, err |-> NoError]
    ELSE [calls |-> c_res,
          err |-> ExecErr("Unknown return code getting results from query %s")]

\* FetchRow without the statement festate->row++
FetchRow_NoRowIncrement(festate, env) ==
    LET c_next == <<Call("dbnextrow", <<>>, env.dbnextrow)>>
        rv == RowValues(env.row, 0)
        c_row == c_next \o <<Call("dbnumcols", <<>>, "ncols")>> \o rv.calls
    IN
    IF env.dbnextrow = "NO_MORE_ROWS"
    THEN [calls |-> c_next, err |-> NoError, festate |-> festate, slot |-> NULL]
    ELSE IF env.dbnextrow = "REG_ROW"
    THEN [calls |-> c_row, err |-> NoError,
          festate |-> festate, slot |-> Ptr(rv.values)]
    ELSE IF env.dbnextrow = "BUF_FULL"
    THEN [calls |-> c_next,
          err |-> Error("ERRCODE_FDW_OUT_OF_MEMORY", "Buffer filled up during query",
                        <<>>, <<>>),
          festate |-> festate, slot |-> NULL]
    ELSE IF env.dbnextrow = "FAIL"
    THEN [calls |-> c_next,
          err |-> Error("ERRCODE_FDW_UNABLE_TO_CREATE_EXECUTION",
                        "Failed to get row during query", <<>>, <<>>),
          festate |-> festate, slot |-> NULL]
    ELSE [calls |-> c_next,
          err |-> Error("ERRCODE_FDW_UNABLE_TO_CREATE_EXECUTION",
                        "Failed to get row during query. Unknown return code.", <<>>, <<>>),
          festate |-> festate, slot |-> NULL]

\* FetchRow with case BUF_FULL falling through to the next case
FetchRow_BufFullAsFail(festate, env) ==
    LET c_next == <<Call("dbnextrow", <<>>, env.dbnextrow)>>
        rv == RowValues(env.row, 0)
        c_row == c_next \o <<Call("dbnumcols", <<>>, "ncols")>> \o rv.calls
    IN
    IF env.dbnextrow = "NO_MORE_ROWS"
    THEN [calls |-> c_next, err |-> NoError, festate |-> festate, slot |-> NULL]
    ELSE IF env.dbnextrow = "REG_ROW"
    THEN [calls |-> c_row, err |-> NoError,
          festate |-> [festate EXCEPT !.row = @ + 1], slot |-> Ptr(rv.values)]
    ELSE IF env.dbnextrow \in {"BUF_FULL", "FAIL"}
    THEN [calls |-> c_next,
          err |-> Error("ERRCODE_FDW_UNABLE_TO_CREATE_EXECUTION",
                        "Failed to get row during query", <<>>, <<>>),
          festate |-> festate, slot |-> NULL]
    ELSE [calls |-> c_next,
          err |-> Error("ERRCODE_FDW_UNABLE_TO_CREATE_EXECUTION",
                        "Failed to get row during query. Unknown return code.", <<>>, <<>>),
          festate |-> festate, slot |-> NULL]

\* from dbnextrow to the end of the function
FetchRow(festate, env) ==
    LET c_next == <<Call("dbnextrow", <<>>, env.dbnextrow)>>
        rv == RowValues(env.row, 0)
        c_row == c_next \o <<Call("dbnumcols", <<>>, "ncols")>> \o rv.calls
    IN
    IF env.dbnextrow = "NO_MORE_ROWS"
    THEN [calls |-> c_next, err |-> NoError, festate |-> festate, slot |-> NULL]
    ELSE IF env.dbnextrow = "REG_ROW"
    THEN [calls |-> c_row, err |-> NoError,
          festate |-> [festate EXCEPT !.row = @ + 1], slot |-> Ptr(rv.values)]
    ELSE IF env.dbnextrow = "BUF_FULL"
    THEN [calls |-> c_next,
          err |-> Error("ERRCODE_FDW_OUT_OF_MEMORY", "Buffer filled up during query",
                        <<>>, <<>>),
          festate |-> festate, slot |-> NULL]
    ELSE IF env.dbnextrow = "FAIL"
    THEN [calls |-> c_next,
          err |-> Error("ERRCODE_FDW_UNABLE_TO_CREATE_EXECUTION",
                        "Failed to get row during query", <<>>, <<>>),
          festate |-> festate, slot |-> NULL]
    ELSE [calls |-> c_next,
          err |-> Error("ERRCODE_FDW_UNABLE_TO_CREATE_EXECUTION",
                        "Failed to get row during query. Unknown return code.", <<>>, <<>>),
          festate |-> festate, slot |-> NULL]

\* tdsIterateForeignScan without the statement festate->first = 0
tdsIterateForeignScan_KeepFirst(festate, env) ==
    LET hs == FirstIteration(festate, env)
        fr == FetchRow(festate, env)
    IN
    IF festate.first # 0
    THEN IF Raised(hs.err)
         THEN [calls |-> hs.calls, err |-> hs.err, festate |-> festate, slot |-> NULL]
         ELSE [fr EXCEPT !.calls = hs.calls \o @]
    ELSE FetchRow(festate, env)

tdsIterateForeignScan(festate, env) ==
    LET cleared == [festate EXCEPT !.first = 0]
        hs == FirstIteration(festate, env)
        fr == FetchRow(cleared, env)
    IN
    IF festate.first # 0
    THEN IF Raised(hs.err)
         THEN [calls |-> hs.calls, err |-> hs.err, festate |-> cleared, slot |-> NULL]
         ELSE [fr EXCEPT !.calls = hs.calls \o @]
    ELSE FetchRow(festate, env)

(***************************************************************************)
(* tdsReScanForeignScan has an empty body; tdsEndForeignScan               *)
(***************************************************************************)
tdsReScanForeignScan(festate) == [calls |-> <<>>, err |-> NoError, festate |-> festate]

\* tdsEndForeignScan with dbexit() called before dbclose and dbloginfree
tdsEndForeignScan_ExitFirst(festate) ==
    [calls |-> <<Call("dbexit", <<>>, "void"),
                 Call("dbclose", <<festate.dbproc>>, "void"),
                 Call("dbloginfree", <<festate.login>>, "void")>>,
     err |-> NoError, festate |-> festate]

\* tdsEndForeignScan without dbloginfree(festate->login)
tdsEndForeignScan_NoLoginFree(festate) ==
    [calls |-> <<Call("dbclose", <<festate.dbproc>>, "void"),
                 Call("dbexit", <<>>, "void")>>,
     err |-> NoError, festate |-> festate]

tdsEndForeignScan(festate) ==
    [calls |-> <<Call("dbclose", <<festate.dbproc>>, "void"),
                 Call("dbloginfree", <<festate.login>>, "void"),
                 Call("dbexit", <<>>, "void")>>,
     err |-> NoError, festate |-> festate]

(***************************************************************************)
(* Planning: tdsGetRowCount, tdsGetStartupCost, tdsGetForeignRelSize,      *)
(* tdsEstimateCosts, tdsGetForeignPaths (PostgreSQL 9.2 and later) and     *)
(* tdsPlanForeignScan (before 9.2)                                         *)
(***************************************************************************)
\* tdsGetRowCount without the goto cleanup under case NO_MORE_RESULTS
tdsGetRowCount_NoMoreResultsFetches(query, env) ==
    LET c_cmd == <<Call("dbcmd", query, env.dbcmd)>>
        c_exec == c_cmd \o <<Call("dbsqlexec", <<>>, env.dbsqlexec)>>
        c_res == c_exec \o <<Call("dbresults", <<>>, env.dbresults)>>
        c_next == c_res \o <<Call("dbnextrow", <<>>, env.dbnextrow)>>
        c_count == c_next \o <<Call("DBCOUNT", <<>>, env.dbcount)>>
        ExecErr(m) == Error("ERRCODE_FDW_UNABLE_TO_CREATE_EXECUTION", m, query, <<>>)
    IN
    IF env.dbcmd = "FAIL"
    THEN [calls |-> c_cmd, err |-> ExecErr("Failed to set current query to %s"),
          rows_report |-> 0]
    ELSE IF env.dbsqlexec = "FAIL"
    THEN [calls |-> c_exec, err |-> ExecErr("Failed to execute query %s"), rows_report |-> 0]
    ELSE IF env.dbresults = "FAIL"
    THEN [calls |-> c_res, err |-> ExecErr("Failed to get results from query %s"),
          rows_report |-> 0]
    ELSE IF env.dbresults \in {"NO_MORE_RESULTS", "SUCCEED"}
    THEN IF env.dbnextrow \in {"NO_MORE_ROWS", "REG_ROW"}
         THEN [calls |-> c_count, err |-> NoError, rows_report |-> env.dbcount]
         ELSE IF env.dbnextrow = "BUF_FULL"
         THEN [calls |-> c_next,
               err |-> Error("ERRCODE_FDW_OUT_OF_MEMORY",
                             "Buffer filled up while getting plan for query", <<>>, <<>>),
               rows_report |-> 0]
         ELSE IF env.dbnextrow = "FAIL"
         THEN [calls |-> c_next,
               err |-> Error("ERRCODE_FDW_UNABLE_TO_CREATE_EXECUTION",
                             "Failed to get row while getting plan for query", <<>>, <<>>),
               rows_report |-> 0]
         ELSE [calls |-> c_next,
               err |-> Error("ERRCODE_FDW_UNABLE_TO_CREATE_EXECUTION",
                             "Failed to get plan for query. Unknown return code.",
                             <<>>, <<>>),
               rows_report |-> 0]
    ELSE [calls |-> c_res,
          err |-> ExecErr("Unknown return code getting results from query %s"),
          rows_report |-> 0]

\* tdsGetRowCount with every case of the switch on dbnextrow falling to DBCOUNT
tdsGetRowCount_FetchFailureCounted(query, env) ==
    LET c_cmd == <<Call("dbcmd", query, env.dbcmd)>>
        c_exec == c_cmd \o <<Call("dbsqlexec", <<>>, env.dbsqlexec)>>
        c_res == c_exec \o <<Call("dbresults", <<>>, env.dbresults)>>
        c_next == c_res \o <<Call("dbnextrow", <<>>, env.dbnextrow)>>
        c_count == c_next \o <<Call("DBCOUNT", <<>>, env.dbcount)>>
        ExecErr(m) == Error("ERRCODE_FDW_UNABLE_TO_CREATE_EXECUTION", m, query, <<>>)
    IN
    IF env.dbcmd = "FAIL"
    THEN [calls |-> c_cmd, err |-> ExecErr("Failed to set current query to %s"),
          rows_report |-> 0]
    ELSE IF env.dbsqlexec = "FAIL"
    THEN [calls |-> c_exec, err |-> ExecErr("Failed to execute query %s"), rows_report |-> 0]
    ELSE IF env.dbresults = "FAIL"
    THEN [calls |-> c_res, err |-> ExecErr("Failed to get results from query %s"),
          rows_report |-> 0]
    ELSE IF env.dbresults = "NO_MORE_RESULTS"
    THEN [calls |-> c_res, err |-> NoError, rows_report |-> 0]
    ELSE IF env.dbresults = "SUCCEED"
    THEN [calls |-> c_count, err |-> NoError, rows_report |-> env.dbcount]
    ELSE [calls |-> c_res,
          err |-> ExecErr("Unknown return code getting results from query %s"),
          rows_report |-> 0]

\* tdsGetRowCount returning rows_increment instead of rows_report
tdsGetRowCount_ReturnsIncrement(query, env) ==
    LET c_cmd == <<Call("dbcmd", query, env.dbcmd)>>
        c_exec == c_cmd \o <<Call("dbsqlexec", <<>>, env.dbsqlexec)>>
        c_res == c_exec \o <<Call("dbresults", <<>>, env.dbresults)>>
        c_next == c_res \o <<Call("dbnextrow", <<>>, env.dbnextrow)>>
        c_count == c_next \o <<Call("DBCOUNT", <<>>, env.dbcount)>>
        ExecErr(m) == Error("ERRCODE_FDW_UNABLE_TO_CREATE_EXECUTION", m, query, <<>>)
    IN
    IF env.dbcmd = "FAIL"
    THEN [calls |-> c_cmd, err |-> ExecErr("Failed to set current query to %s"),
          rows_report |-> 0]
    ELSE IF env.dbsqlexec = "FAIL"
    THEN [calls |-> c_exec, err |-> ExecErr("Failed to execute query %s"), rows_report |-> 0]
    ELSE IF env.dbresults = "FAIL"
    THEN [calls |-> c_res, err |-> ExecErr("Failed to get results from query %s"),
          rows_report |-> 0]
    ELSE IF env.dbresults = "NO_MORE_RESULTS"
    THEN [calls |-> c_res, err |-> NoError, rows_report |-> 0]
    ELSE IF env.dbresults = "SUCCEED"
    THEN IF env.dbnextrow \in {"NO_MORE_ROWS", "REG_ROW"}
         THEN [calls |-> c_count, err |-> NoError,
               rows_report |-> IF env.dbnextrow = "REG_ROW" THEN 1 ELSE 0]
         ELSE IF env.dbnextrow = "BUF_FULL"
         THEN [calls |-> c_next,
               err |-> Error("ERRCODE_FDW_OUT_OF_MEMORY",
                             "Buffer filled up while getting plan for query", <<>>, <<>>),
               rows_report |-> 0]
         ELSE IF env.dbnextrow = "FAIL"
         THEN [calls |-> c_next,
               err |-> Error("ERRCODE_FDW_UNABLE_TO_CREATE_EXECUTION",
                             "Failed to get row while getting plan for query", <<>>, <<>>),
               rows_report |-> 0]
         ELSE [calls |-> c_next,
               err |-> Error("ERRCODE_FDW_UNABLE_TO_CREATE_EXECUTION",
                             "Failed to get plan for query. Unknown return code.",
                             <<>>, <<>>),
               rows_report |-> 0]
    ELSE [calls |-> c_res,
          err |-> ExecErr("Unknown return code getting results from query %s"),
          rows_report |-> 0]

\* query: option_set->query as tdsSetupConnection left it.  env: answers to
\* dbcmd, dbsqlexec, dbresults, dbnextrow, DBCOUNT.  Result: calls made,
\* error raised, the value returned when none was raised.
tdsGetRowCount(query, env) ==
    LET c_cmd == <<Call("dbcmd", query, env.dbcmd)>>
        c_exec == c_cmd \o <<Call("dbsqlexec", <<>>, env.dbsqlexec)>>
        c_res == c_exec \o <<Call("dbresults", <<>>, env.dbresults)>>
        c_next == c_res \o <<Call("dbnextrow", <<>>, env.dbnextrow)>>
        c_count == c_next \o <<Call("DBCOUNT", <<>>, env.dbcount)>>
        ExecErr(m) == Error("ERRCODE_FDW_UNABLE_TO_CREATE_EXECUTION", m, query, <<>>)
    IN
    IF env.dbcmd = "FAIL"
    THEN [calls |-> c_cmd, err |-> ExecErr("Failed to set current query to %s"),
          rows_report |-> 0]
    ELSE IF env.dbsqlexec = "FAIL"
    THEN [calls |-> c_exec, err |-> ExecErr("Failed to execute query %s"), rows_report |-> 0]
    ELSE IF env.dbresults = "FAIL"
    THEN [calls |-> c_res, err |-> ExecErr("Failed to get results from query %s"),
          rows_report |-> 0]
    ELSE IF env.dbresults = "NO_MORE_RESULTS"
    THEN [calls |-> c_res, err |-> NoError, rows_report |-> 0]
    ELSE IF env.dbresults = "SUCCEED"
    THEN IF env.dbnextrow \in {"NO_MORE_ROWS", "REG_ROW"}
         THEN [calls |-> c_count, err |-> NoError, rows_report |-> env.dbcount]
         ELSE IF env.dbnextrow = "BUF_FULL"
         THEN [calls |-> c_next,
               err |-> Error("ERRCODE_FDW_OUT_OF_MEMORY",
                             "Buffer filled up while getting plan for query", <<>>, <<>>),
               rows_report |-> 0]
         ELSE IF env.dbnextrow = "FAIL"
         THEN [calls |-> c_next,
               err |-> Error("ERRCODE_FDW_UNABLE_TO_CREATE_EXECUTION",
                             "Failed to get row while getting plan for query", <<>>, <<>>),
               rows_report |-> 0]
         ELSE [calls |-> c_next,
               err |-> Error("ERRCODE_FDW_UNABLE_TO_CREATE_EXECUTION",
                             "Failed to get plan for query. Unknown return code.",
                             <<>>, <<>>),
               rows_report |-> 0]
    ELSE [calls |-> c_res,
          err |-> ExecErr("Unknown return code getting results from query %s"),
          rows_report |-> 0]

s_127_0_0_1 == <<"1", "2", "7", ".", "0", ".", "0", ".", "1">>

s_localhost == <<"l", "o", "c", "a", "l", "h", "o", "s", "t">>

\* strcmp(a, b) == 0
StrEq(a, b) == a = b

\* tdsGetStartupCost without the comparison with "localhost"
tdsGetStartupCost_AddressOnly(option_set) ==
    IF StrEq(Deref(option_set.servername), s_127_0_0_1) THEN 0 ELSE 25

tdsGetStartupCost(option_set) ==
    IF StrEq(Deref(option_set.servername), s_127_0_0_1)
       \/ StrEq(Deref(option_set.servername), s_localhost)
    THEN 0
    ELSE 25

\* the labels cleanup: and cleanup_before_login: of tdsGetForeignRelSize and
\* tdsPlanForeignScan, reached only by falling through from the last statement
PlanCleanup(dbproc, login) ==
    <<Call("dbclose", <<dbproc>>, "void"),
      Call("dbloginfree", <<login>>, "void"),
      Call("dbexit", <<>>, "void")>>

\* The statements of a planning callback in the order of the source, by the
\* name of what each calls or assigns; a callback that raises an error
\* executes a prefix of them.
RelSizeSteps ==
    <<"tdsGetOptions", "dbinit", "dblogin", "tdsSetupConnection", "tdsGetRowCount",
      "dbclose", "dbloginfree", "dbexit">>

EstimateCostsSteps == <<"tdsGetOptions", "tdsGetStartupCost", "total_cost">>

PlanForeignScanSteps ==
    <<"tdsGetOptions", "tdsGetStartupCost", "dbinit", "dblogin", "tdsSetupConnection",
      "tdsGetRowCount", "total_cost", "dbclose", "dbloginfree", "dbexit">>

\* the statements executed up to and including the one named last
StepsUpTo(steps, name) ==
    SubSeq(steps, 1, CHOOSE i \in 1..Len(steps) : steps[i] = name)

\* the statement of OpenLibrary that raised lib_err
OpenLibraryFailedAt(env) == IF env.dbinit = "FAIL" THEN "dbinit" ELSE "dblogin"

\* Result: calls made, error raised, baserel on exit, statements executed
tdsGetForeignRelSize(cat, rel, env) ==
    LET go == tdsGetOptions(cat)
        lib == OpenLibrary(env)
        sc == tdsSetupConnection(go.option_set, env.dblogin, env)
        rc == tdsGetRowCount(sc.query, env)
    IN
    IF Raised(go.err)
    THEN [calls |-> <<>>, err |-> go.err, baserel |-> rel,
          steps |-> StepsUpTo(RelSizeSteps, "tdsGetOptions")]
    ELSE IF Raised(lib.err)
    THEN [calls |-> lib.calls, err |-> lib.err, baserel |-> rel,
          steps |-> StepsUpTo(RelSizeSteps, OpenLibraryFailedAt(env))]
    ELSE IF Raised(sc.err)
    THEN [calls |-> lib.calls \o sc.calls, err |-> sc.err, baserel |-> rel,
          steps |-> StepsUpTo(RelSizeSteps, "tdsSetupConnection")]
    ELSE IF Raised(rc.err)
    THEN [calls |-> lib.calls \o sc.calls \o rc.calls, err |-> rc.err, baserel |-> rel,
          steps |-> StepsUpTo(RelSizeSteps, "tdsGetRowCount")]
    ELSE [calls |-> lib.calls \o sc.calls \o rc.calls \o PlanCleanup(sc.dbproc, env.dblogin),
          err |-> NoError,
          baserel |-> [rows |-> rc.rows_report, tuples |-> rc.rows_report],
          steps |-> RelSizeSteps]

\* tdsEstimateCosts taking the option set from its caller instead of calling
\* tdsGetOptions
tdsEstimateCosts_OptionsGiven(cat, rel) ==
    LET go == tdsGetOptions(cat)
        startup == tdsGetStartupCost(go.option_set)
    IN
    IF Raised(go.err)
    THEN [err |-> go.err, startup_cost |-> 0, total_cost |-> 0, steps |-> <<>>]
    ELSE [err |-> NoError, startup_cost |-> startup, total_cost |-> rel.rows + startup,
          steps |-> <<"tdsGetStartupCost", "total_cost">>]

\* Result: error raised, *startup_cost, *total_cost, statements executed
tdsEstimateCosts(cat, rel) ==
    LET go == tdsGetOptions(cat)
        startup == tdsGetStartupCost(go.option_set)
    IN
    IF Raised(go.err)
    THEN [err |-> go.err, startup_cost |-> 0, total_cost |-> 0,
          steps |-> StepsUpTo(EstimateCostsSteps, "tdsGetOptions")]
    ELSE [err |-> NoError, startup_cost |-> startup, total_cost |-> rel.rows + startup,
          steps |-> EstimateCostsSteps]

\* Result: calls made, error raised, the path handed to add_path, statements
\* executed
tdsGetForeignPaths(cat, rel) ==
    LET ec == tdsEstimateCosts(cat, rel) IN
    IF Raised(ec.err) THEN [calls |-> <<>>, err |-> ec.err, path |-> NULL, steps |-> ec.steps]
    ELSE [calls |-> <<>>, err |-> NoError,
          path |-> Ptr([rows |-> rel.rows, startup_cost |-> ec.startup_cost,
                        total_cost |-> ec.total_cost]),
          steps |-> ec.steps \o <<"add_path">>]

\* Result: calls made, error raised, baserel on exit, the FdwPlan returned,
\* statements executed
tdsPlanForeignScan(cat, rel, env) ==
    LET go == tdsGetOptions(cat)
        startup == tdsGetStartupCost(go.option_set)
        lib == OpenLibrary(env)
        sc == tdsSetupConnection(go.option_set, env.dblogin, env)
        rc == tdsGetRowCount(sc.query, env)
    IN
    IF Raised(go.err)
    THEN [calls |-> <<>>, err |-> go.err, baserel |-> rel, path |-> NULL,
          steps |-> StepsUpTo(PlanForeignScanSteps, "tdsGetOptions")]
    ELSE IF Raised(lib.err)
    THEN [calls |-> lib.calls, err |-> lib.err, baserel |-> rel, path |-> NULL,
          steps |-> StepsUpTo(PlanForeignScanSteps, OpenLibraryFailedAt(env))]
    ELSE IF Raised(sc.err)
    THEN [calls |-> lib.calls \o sc.calls, err |-> sc.err, baserel |-> rel, path |-> NULL,
          steps |-> StepsUpTo(PlanForeignScanSteps, "tdsSetupConnection")]
    ELSE IF Raised(rc.err)
    THEN [calls |-> lib.calls \o sc.calls \o rc.calls, err |-> rc.err,
          baserel |-> rel, path |-> NULL,
          steps |-> StepsUpTo(PlanForeignScanSteps, "tdsGetRowCount")]
    ELSE [calls |-> lib.calls \o sc.calls \o rc.calls \o PlanCleanup(sc.dbproc, env.dblogin),
          err |-> NoError,
          baserel |-> [rows |-> rc.rows_report, tuples |-> rc.rows_report],
          path |-> Ptr([rows |-> rc.rows_report, startup_cost |-> startup,
                        total_cost |-> rc.rows_report + startup]),
          steps |-> PlanForeignScanSteps]

(***************************************************************************)
(* Inputs: option values, catalogs, remote rows, DB-Library answers        *)
(***************************************************************************)
v_t == <<"t">>

v_employees == <<"e", "m", "p", "l", "o", "y", "e", "e", "s">>

v_query == <<"S", "E", "L", "E", "C", "T", " ", "i", "d", " ", "F", "R", "O", "M", " ", "t">>

v_db == <<"d", "b">>

v_dbhost == <<"d", "b", "h", "o", "s", "t">>

v_Localhost == <<"L", "o", "c", "a", "l", "h", "o", "s", "t">>

v_0 == <<"0">>

v_1433 == <<"1", "4", "3", "3">>

v_100000000 == <<"1", "0", "0", "0", "0", "0", "0", "0", "0">>

v_user == <<"s", "a">>

v_pw == <<"p", "w">>

v_charset == <<"U", "T", "F", "-", "8">>

v_lang == <<"e", "n">>

TableOptions ==
    { <<>>,
      <<DefElem("table", v_t)>>,
      <<DefElem("table", v_employees), DefElem("database", v_db)>>,
      <<DefElem("query", v_query)>>,
      <<DefElem("query", v_query), DefElem("table", v_t)>>,
      <<DefElem("database", v_db), DefElem("table", v_t), DefElem("query", v_query)>> }

ServerOptions ==
    { <<>>,
      <<DefElem("servername", s_localhost)>>,
      <<DefElem("servername", v_dbhost), DefElem("port", v_1433)>>,
      <<DefElem("servername", s_127_0_0_1), DefElem("port", v_0)>>,
      <<DefElem("servername", v_dbhost), DefElem("port", v_100000000)>>,
      <<DefElem("servername", v_Localhost), DefElem("character_set", v_charset),
        DefElem("language", v_lang)>> }

MappingOptions ==
    { <<>>, <<DefElem("username", v_user), DefElem("password", v_pw)>> }

Catalogs == [f_table : TableOptions, f_server : ServerOptions, f_mapping : MappingOptions]

NoCatalog == [f_table |-> <<>>, f_server |-> <<>>, f_mapping |-> <<>>]

Column(t, l, d, w, c, x, j) ==
    [type |-> t, len |-> l, data |-> d, willconvert |-> w, convert |-> c,
     text |-> x, junk |-> j]

RemoteRows ==
    { <<Column("SYBCHAR", 2, Ptr(<<"a", "b">>), TRUE, "ok", <<"a", "b">>, <<"?">>)>>,
      <<Column("SYBINT4", 0, NULL, TRUE, "ok", <<>>, <<"?">>),
        Column("SYBINT4", 4, Ptr(<<"7">>), TRUE, "ok", <<"7">>, <<"?">>)>>,
      <<Column("SYBVARCHAR", 1, NULL, TRUE, "ok", <<"x">>, <<"?">>)>>,
      <<Column("SYBBINARY", 1, Ptr(<<"z">>), FALSE, "ok", <<"z">>, <<"?">>),
        Column("SYBCHAR", 1, Ptr(<<"d">>), TRUE, "ok", <<"d">>, <<"?">>)>>,
      <<Column("SYBINT4", 4, Ptr(<<"9">>), TRUE, "FAIL", <<"9">>, <<"?">>),
        Column("SYBCHAR", 1, Ptr(<<"c">>), TRUE, "-1", <<"c">>, <<>>)>> }

NoRow == <<>>

\* An answer is an input only if the call is made: in the records below the
\* answers to the calls that come after a failing one are fixed to one value.
OpenEnv(i, l, o, u) == [dbinit |-> i, dblogin |-> l, dbopen |-> o, dbuse |-> u]

BeginEnvs ==
    { OpenEnv("FAIL", LOGINREC, DBPROCESS, "SUCCEED"),
      OpenEnv("SUCCEED", NULL_HANDLE, DBPROCESS, "SUCCEED"),
      OpenEnv("SUCCEED", LOGINREC, NULL_HANDLE, "SUCCEED"),
      OpenEnv("SUCCEED", LOGINREC, DBPROCESS, "FAIL"),
      OpenEnv("SUCCEED", LOGINREC, DBPROCESS, "SUCCEED") }

OpenFails(e) ==
    e.dbinit = "FAIL" \/ e.dblogin = NULL_HANDLE \/ e.dbopen = NULL_HANDLE \/ e.dbuse = "FAIL"

QueryEnv(c, x, r, n) == [dbcmd |-> c, dbsqlexec |-> x, dbresults |-> r, dbnextrow |-> n]

\* answers with which dbnextrow is not reached
HandshakeFailures ==
    { QueryEnv("FAIL", "SUCCEED", "SUCCEED", "NO_MORE_ROWS"),
      QueryEnv("SUCCEED", "FAIL", "SUCCEED", "NO_MORE_ROWS"),
      QueryEnv("SUCCEED", "SUCCEED", "FAIL", "NO_MORE_ROWS"),
      QueryEnv("SUCCEED", "SUCCEED", "NO_MORE_RESULTS", "NO_MORE_ROWS"),
      QueryEnv("SUCCEED", "SUCCEED", "OTHER", "NO_MORE_ROWS") }

FetchAnswers(nextrows) ==
    { QueryEnv("SUCCEED", "SUCCEED", "SUCCEED", n) : n \in nextrows }

WithRow(q, r) ==
    [dbcmd |-> q.dbcmd, dbsqlexec |-> q.dbsqlexec, dbresults |-> q.dbresults,
     dbnextrow |-> q.dbnextrow, row |-> r]

IterateEnvs ==
    { WithRow(q, NoRow) :
        q \in HandshakeFailures \cup FetchAnswers({"NO_MORE_ROWS", "BUF_FULL", "FAIL", "OTHER"}) }
    \cup { WithRow(q, r) : q \in FetchAnswers({"REG_ROW"}), r \in RemoteRows }

RowCounts == {0, 1, 3}

PlanEnv(o, q, n) ==
    [dbinit |-> o.dbinit, dblogin |-> o.dblogin, dbopen |-> o.dbopen, dbuse |-> o.dbuse,
     dbcmd |-> q.dbcmd, dbsqlexec |-> q.dbsqlexec, dbresults |-> q.dbresults,
     dbnextrow |-> q.dbnextrow, dbcount |-> n]

PlanEnvs ==
    { PlanEnv(o, QueryEnv("SUCCEED", "SUCCEED", "SUCCEED", "NO_MORE_ROWS"), 0) :
        o \in { e \in BeginEnvs : OpenFails(e) } }
    \cup { PlanEnv(OpenEnv("SUCCEED", LOGINREC, DBPROCESS, "SUCCEED"), q, 0) :
             q \in HandshakeFailures \cup FetchAnswers({"BUF_FULL", "FAIL", "OTHER"}) }
    \cup { PlanEnv(OpenEnv("SUCCEED", LOGINREC, DBPROCESS, "SUCCEED"), q, n) :
             q \in FetchAnswers({"REG_ROW", "NO_MORE_ROWS"}), n \in RowCounts }

(***************************************************************************)
(* Callers that share one backend process.  dbinit() and dbexit() take no  *)
(* handle: what they set up and tear down belongs to the process, and so   *)
(* do the handlers given to dberrhandle and dbmsghandle.  dblib is that    *)
(* state: the dbinit calls not yet matched by a dbexit, whether the        *)
(* library is initialised, the LOGINREC and DBPROCESS structures that are  *)
(* allocated, the installed handlers.  dbexit closes and deallocates all   *)
(* DBPROCESS structures of the process; a library that counts the calls of *)
(* dbinit does so only in the dbexit that matches the first dbinit, and    *)
(* which of the two the linked library does is fixed when the backend      *)
(* starts (refcounted).                                                    *)
(***************************************************************************)
Callers == 0..2     \* 0: the planner's tdsGetForeignRelSize; 1, 2: scans

ScanIds == {1, 2}

LoginOf(i) == IF i = 1 THEN LOGINREC ELSE IF i = 2 THEN "LOGINREC_2" ELSE "LOGINREC_0"

DbprocOf(i) == IF i = 1 THEN DBPROCESS ELSE IF i = 2 THEN "DBPROCESS_2" ELSE "DBPROCESS_0"

NoSessions == [i \in Callers |-> [phase |-> "idle", fdw_state |-> NULL, nNext |-> 0]]

LibInit(rc) ==
    [refcounted |-> rc, inits |-> 0, up |-> FALSE, logins |-> {}, dbprocs |-> {},
     errhandle |-> "none", msghandle |-> "none"]

\* the effect of one DB-Library call on the state of the process
LibCall(lib, c) ==
    CASE c.fn = "dbinit" ->
           IF c.ret = "FAIL" THEN lib ELSE [lib EXCEPT !.inits = @ + 1, !.up = TRUE]
      [] c.fn = "dberrhandle" -> [lib EXCEPT !.errhandle = c.arg[1]]
      [] c.fn = "dbmsghandle" -> [lib EXCEPT !.msghandle = c.arg[1]]
      [] c.fn = "dblogin" ->
           IF c.ret = NULL_HANDLE THEN lib ELSE [lib EXCEPT !.logins = @ \cup {c.ret}]
      [] c.fn = "dbopen" ->
           IF c.ret = NULL_HANDLE THEN lib ELSE [lib EXCEPT !.dbprocs = @ \cup {c.ret}]
      [] c.fn = "dbclose" -> [lib EXCEPT !.dbprocs = @ \ {c.arg[1]}]
      [] c.fn = "dbloginfree" -> [lib EXCEPT !.logins = @ \ {c.arg[1]}]
      [] c.fn = "dbexit" ->
           IF lib.refcounted /\ lib.inits > 1
           THEN [lib EXCEPT !.inits = @ - 1]
           ELSE [lib EXCEPT !.inits = 0, !.up = FALSE, !.dbprocs = {}]
      [] OTHER -> lib

RECURSIVE LibApply(_, _)
LibApply(lib, calls) ==
    IF calls = <<>> THEN lib ELSE LibApply(LibCall(lib, Head(calls)), Tail(calls))

(***************************************************************************)
(* The handlers given to dberrhandle and dbmsghandle.  DB-Library calls    *)
(* one of them while a call of a callback is in flight.  Result: the error *)
(* raised, the notice emitted, the value returned to DB-Library ("none"    *)
(* when the return statement is not reached).                              *)
(***************************************************************************)
\* tds_err_handler reporting the error as a notice and returning INT_CANCEL
tds_err_handler_Notice(severity, dberr, oserr, dberrstr, oserrstr) ==
    [err |-> NoError,
     notice |-> Ptr([msg |-> "DB-Library error: DB #: %i, DB Msg: %s, OS #: %i, OS Msg: %s, Level: %i",
                     arg |-> <<IntToStr(dberr), dberrstr, IntToStr(oserr), oserrstr,
                               IntToStr(severity)>>]),
     ret |-> "INT_CANCEL"]

\* ereport(ERROR) does not return: return INT_CANCEL is not reached
tds_err_handler(severity, dberr, oserr, dberrstr, oserrstr) ==
    [err |-> Error("ERRCODE_FDW_UNABLE_TO_CREATE_EXECUTION",
                   "DB-Library error: DB #: %i, DB Msg: %s, OS #: %i, OS Msg: %s, Level: %i",
                   <<IntToStr(dberr), dberrstr, IntToStr(oserr), oserrstr,
                     IntToStr(severity)>>, <<>>),
     notice |-> NULL,
     ret |-> "none"]

\* tds_msg_handler with ereport(ERROR) in place of ereport(NOTICE)
tds_msg_handler_Error(msgno, msgstate, severity, msgtext, svr_name, proc_name, line) ==
    [err |-> Error("ERRCODE_FDW_UNABLE_TO_CREATE_EXECUTION",
                   "DB-Library notice: Msg #: %ld, Msg state: %i, Msg: %s, Server: %s, Process: %s, Line: %i, Level: %i",
                   <<IntToStr(msgno), IntToStr(msgstate), msgtext, svr_name, proc_name,
                     IntToStr(line), IntToStr(severity)>>, <<>>),
     notice |-> NULL,
     ret |-> "none"]

tds_msg_handler(msgno, msgstate, severity, msgtext, svr_name, proc_name, line) ==
    [err |-> NoError,
     notice |-> Ptr([msg |-> "DB-Library notice: Msg #: %ld, Msg state: %i, Msg: %s, Server: %s, Process: %s, Line: %i, Level: %i",
                     arg |-> <<IntToStr(msgno), IntToStr(msgstate), msgtext, svr_name,
                               proc_name, IntToStr(line), IntToStr(severity)>>]),
     ret |-> "0"]

\* what DB-Library passes to tds_err_handler and to tds_msg_handler
ErrEvents ==
    { [severity |-> 9, dberr |-> 20004, oserr |-> 104,
       dberrstr |-> <<"r", "e", "a", "d">>, oserrstr |-> <<"r", "e", "s", "e", "t">>],
      [severity |-> 0, dberr |-> 0, oserr |-> -1, dberrstr |-> <<>>, oserrstr |-> <<>>],
      [severity |-> 2147483647, dberr |-> -2147483647, oserr |-> 0,
       dberrstr |-> <<"x">>, oserrstr |-> <<>>] }

MsgEvents ==
    { [msgno |-> 5701, msgstate |-> 2, severity |-> 0, msgtext |-> <<"u", "s", "e">>,
       svr_name |-> <<"s">>, proc_name |-> <<>>, line |-> 1],
      [msgno |-> 50000, msgstate |-> 1, severity |-> 16, msgtext |-> <<"x">>,
       svr_name |-> <<>>, proc_name |-> <<"p">>, line |-> 0],
      [msgno |-> -1, msgstate |-> 0, severity |-> 25, msgtext |-> <<>>,
       svr_name |-> <<"s">>, proc_name |-> <<"p">>, line |-> 2147483647] }

\* no handler was called during the callback
NoCallback ==
    [handler |-> "none", at |-> 0, event |-> <<>>, err |-> NoError, notice |-> NULL,
     ret |-> "none"]

\* handler name called with event while the call at position at was in flight
Callback(name, at, event, h) ==
    [handler |-> name, at |-> at, event |-> event, err |-> h.err, notice |-> h.notice,
     ret |-> h.ret]

\* The calls of handlers DB-Library can make during the calls of a callback,
\* lib being the library's state when the callback starts: a handler is
\* called only once it is installed.
Callbacks(lib, calls) ==
    { Callback("tds_err_handler", k, ev,
               tds_err_handler(ev.severity, ev.dberr, ev.oserr, ev.dberrstr, ev.oserrstr)) :
        k \in {j \in 1..Len(calls) :
                 LibApply(lib, SubSeq(calls, 1, j - 1)).errhandle = "tds_err_handler"},
        ev \in ErrEvents }
    \cup
    { Callback("tds_msg_handler", k, ev,
               tds_msg_handler(ev.msgno, ev.msgstate, ev.severity, ev.msgtext, ev.svr_name,
                               ev.proc_name, ev.line)) :
        k \in {j \in 1..Len(calls) :
                 LibApply(lib, SubSeq(calls, 1, j - 1)).msghandle = "tds_msg_handler"},
        ev \in MsgEvents }

\* the calls made when ereport(ERROR) in a handler leaves the callback by
\* longjmp while call k is in flight: call k does not return, none follows
InFlight(calls, k) == SubSeq(calls, 1, k - 1) \o <<[calls[k] EXCEPT !.ret = "longjmp"]>>

\* Each callback left by longjmp during its call k, r being the result it
\* would have had: the assignments made before call k are kept.
\* node->fdw_state is assigned after the last call of tdsBeginForeignScan
tdsBeginForeignScan_Left(r, k, e) ==
    [calls |-> InFlight(r.calls, k), err |-> e, fdw_state |-> NULL]

\* festate->first = 0 precedes every call, festate->row++ follows dbnextrow,
\* ExecClearTuple precedes and ExecStoreTuple follows every call
tdsIterateForeignScan_Left(festate, r, k, e) ==
    [calls |-> InFlight(r.calls, k), err |-> e,
     festate |-> [festate EXCEPT !.first = 0,
                                 !.row = IF \E j \in 1..(k - 1) : r.calls[j].fn = "dbnextrow"
                                         THEN @ + 1 ELSE @],
     slot |-> NULL]

tdsEndForeignScan_Left(festate, r, k, e) ==
    [calls |-> InFlight(r.calls, k), err |-> e, festate |-> festate]

\* baserel->rows and baserel->tuples are assigned between DBCOUNT and dbclose
tdsGetForeignRelSize_Left(rel, r, k, e) ==
    [calls |-> InFlight(r.calls, k), err |-> e,
     baserel |-> IF \E j \in 1..(k - 1) : r.calls[j].fn = "dbclose" THEN r.baserel
                 ELSE IF r.calls[k].fn = "dbclose" THEN r.baserel ELSE rel]

\* A callback during which DB-Library calls a handler: the handler that
\* raises leaves the callback (left), the one that returns lets it go on (r).
Deliver(r, left, cb) ==
    (IF Raised(cb.err) THEN left ELSE r) @@ [cb |-> cb]

(***************************************************************************)
(* The scan: the host calls the callbacks of one ForeignScanState          *)
(***************************************************************************)
\* steps: the statements executed, for the planning callbacks
Ran(name, r) ==
    [op |-> name, calls |-> r.calls, err |-> r.err,
     steps |-> IF "steps" \in DOMAIN r THEN r.steps ELSE <<>>,
     cb |-> IF "cb" \in DOMAIN r THEN r.cb ELSE NoCallback]

NotRun == [op |-> "none", calls |-> <<>>, err |-> NoError, steps |-> <<>>, cb |-> NoCallback]

\* nRaised: calls of tdsIterateForeignScan that ended in ereport(ERROR)
\* nRows: the calls of tdsIterateForeignScan that returned a slot holding a row;
\* nResultSets: the calls of dbresults in the scan that answered SUCCEED
HostInit ==
    [phase |-> "idle", nNext |-> 0, nEnd |-> 0, nReScan |-> 0, nRaised |-> 0, nRows |-> 0,
     nResultSets |-> 0]

\* the calls of function f in a sequence of calls that were answered with ret
CountAnswer(calls, f, ret) ==
    Cardinality({i \in 1..Len(calls) : calls[i].fn = f /\ calls[i].ret = ret})

Init ==
    /\ catalog \in Catalogs
    /\ fdw_state = NULL
    /\ slot = NULL
    /\ last = NotRun
    /\ issued = NoCalls
    /\ host = HostInit
    /\ baserel = [rows |-> 0, tuples |-> 0]
    /\ path = NULL
    /\ vin = [options_list |-> <<>>, catalog |-> "none"]
    /\ vout = NULL
    /\ sess = NoSessions
    /\ dblib = LibInit(TRUE)

BeginForeignScan ==
    /\ host.phase = "idle"
    /\ \E env \in BeginEnvs :
         \E r \in {tdsBeginForeignScan(catalog, env)} :
         /\ fdw_state' = r.fdw_state
         /\ last' = Ran("tdsBeginForeignScan", r)
         /\ dblib' = LibApply(dblib, r.calls)
         /\ issued' = Tally(issued, r.calls)
    /\ host' = [host EXCEPT !.phase = "scan"]
    /\ UNCHANGED <<catalog, slot, baserel, path, vin, vout, sess>>

\* the host does not call it after tdsEndForeignScan
IterateForeignScan ==
    /\ host.phase = "scan"
    /\ fdw_state # NULL
    /\ host.nEnd = 0
    /\ host.nNext < MaxNext
    /\ \E env \in IterateEnvs :
         \E r \in {tdsIterateForeignScan(Deref(fdw_state), env)} :
         /\ fdw_state' = Ptr(r.festate)
         /\ slot' = r.slot
         /\ last' = Ran("tdsIterateForeignScan", r)
         /\ dblib' = LibApply(dblib, r.calls)
         /\ issued' = Tally(issued, r.calls)
         /\ host' = [host EXCEPT !.nNext = @ + 1,
                                 !.nRaised = IF Raised(r.err) THEN @ + 1 ELSE @,
                                 !.nRows = IF r.slot # NULL THEN @ + 1 ELSE @,
                                 !.nResultSets =
                                     @ + CountAnswer(r.calls, "dbresults", "SUCCEED")]
    /\ UNCHANGED <<catalog, baserel, path, vin, vout, sess>>

ReScanForeignScan ==
    /\ host.phase = "scan"
    /\ fdw_state # NULL
    /\ host.nEnd = 0
    /\ host.nReScan < MaxReScan
    /\ \E r \in {tdsReScanForeignScan(Deref(fdw_state))} :
         /\ fdw_state' = Ptr(r.festate)
         /\ last' = Ran("tdsReScanForeignScan", r)
         /\ dblib' = LibApply(dblib, r.calls)
         /\ issued' = Tally(issued, r.calls)
    /\ host' = [host EXCEPT !.nReScan = @ + 1]
    /\ UNCHANGED <<catalog, slot, baserel, path, vin, vout, sess>>

EndForeignScan ==
    /\ host.phase = "scan"
    /\ fdw_state # NULL
    /\ host.nEnd < MaxEnd
    /\ \E r \in {tdsEndForeignScan(Deref(fdw_state))} :
         /\ fdw_state' = Ptr(r.festate)
         /\ last' = Ran("tdsEndForeignScan", r)
         /\ dblib' = LibApply(dblib, r.calls)
         /\ issued' = Tally(issued, r.calls)
    /\ host' = [host EXCEPT !.nEnd = @ + 1]
    /\ UNCHANGED <<catalog, slot, baserel, path, vin, vout, sess>>

(***************************************************************************)
(* Planning: the host calls tdsGetForeignRelSize and then                  *)
(* tdsGetForeignPaths (9.2 and later), or tdsPlanForeignScan (before 9.2)  *)
(***************************************************************************)
GetForeignRelSize ==
    /\ host.phase = "idle"
    /\ \E env \in PlanEnvs :
         \E r \in {tdsGetForeignRelSize(catalog, baserel, env)} :
         /\ baserel' = r.baserel
         /\ last' = Ran("tdsGetForeignRelSize", r)
         /\ dblib' = LibApply(dblib, r.calls)
         /\ issued' = Tally(issued, r.calls)
         /\ host' = [host EXCEPT !.phase = IF Raised(r.err) THEN "aborted" ELSE "sized"]
    /\ UNCHANGED <<catalog, fdw_state, slot, path, vin, vout, sess>>

GetForeignPaths ==
    /\ host.phase = "sized"
    /\ \E r \in {tdsGetForeignPaths(catalog, baserel)} :
         /\ path' = r.path
         /\ last' = Ran("tdsGetForeignPaths", r)
         /\ dblib' = LibApply(dblib, r.calls)
         /\ host' = [host EXCEPT !.phase = IF Raised(r.err) THEN "aborted" ELSE "planned"]
    /\ UNCHANGED <<catalog, fdw_state, slot, issued, baserel, vin, vout, sess>>

PlanForeignScan ==
    /\ host.phase = "idle"
    /\ \E env \in PlanEnvs :
         \E r \in {tdsPlanForeignScan(catalog, baserel, env)} :
         /\ baserel' = r.baserel
         /\ path' = r.path
         /\ last' = Ran("tdsPlanForeignScan", r)
         /\ dblib' = LibApply(dblib, r.calls)
         /\ issued' = Tally(issued, r.calls)
         /\ host' = [host EXCEPT !.phase = IF Raised(r.err) THEN "aborted" ELSE "planned"]
    /\ UNCHANGED <<catalog, fdw_state, slot, vin, vout, sess>>

\* from the idle state the host either runs one scan or plans once
Next ==
    \/ BeginForeignScan
    \/ IterateForeignScan
    \/ ReScanForeignScan
    \/ EndForeignScan
    \/ GetForeignRelSize
    \/ GetForeignPaths
    \/ PlanForeignScan

Spec == Init /\ [][Next]_vars

(***************************************************************************)
(* Two scans and a planning call interleaved in one backend process        *)
(***************************************************************************)
BackendCatalog == [f_table |-> <<DefElem("table", v_t)>>, f_server |-> <<>>, f_mapping |-> <<>>]

\* DB-Library hands caller i its own LOGINREC and DBPROCESS
BackendOpenEnvs(i) ==
    { OpenEnv("SUCCEED", LoginOf(i), NULL_HANDLE, "SUCCEED"),
      OpenEnv("SUCCEED", LoginOf(i), DbprocOf(i), "SUCCEED") }

BackendIterateEnvs ==
    { WithRow(q, NoRow) : q \in FetchAnswers({"NO_MORE_ROWS", "FAIL"}) }
    \cup { WithRow(q, <<Column("SYBCHAR", 2, Ptr(<<"a", "b">>), TRUE, "ok", <<"a", "b">>,
                            <<"?">>)>>) :
             q \in FetchAnswers({"REG_ROW"}) }

BackendPlanEnvs ==
    { PlanEnv(o, QueryEnv("SUCCEED", "SUCCEED", "SUCCEED", "NO_MORE_ROWS"), 1) :
        o \in BackendOpenEnvs(0) }

InitBackend ==
    /\ catalog = BackendCatalog
    /\ fdw_state = NULL
    /\ slot = NULL
    /\ last = NotRun
    /\ issued = NoCalls
    /\ host = HostInit
    /\ baserel = [rows |-> 0, tuples |-> 0]
    /\ path = NULL
    /\ vin = [options_list |-> <<>>, catalog |-> "none"]
    /\ vout = NULL
    /\ sess = NoSessions
    /\ dblib \in {LibInit(TRUE), LibInit(FALSE)}

BackendBegin(i) ==
    /\ sess[i].phase = "idle"
    /\ \E env \in BackendOpenEnvs(i) :
         \E r \in {tdsBeginForeignScan(catalog, env)} :
         /\ sess' = [sess EXCEPT ![i] = [phase |-> IF Raised(r.err) THEN "aborted" ELSE "open",
                                         fdw_state |-> r.fdw_state, nNext |-> 0]]
         /\ dblib' = LibApply(dblib, r.calls)
         /\ last' = Ran("tdsBeginForeignScan", r)
    /\ UNCHANGED <<catalog, fdw_state, slot, issued, host, baserel, path, vin, vout>>

BackendIterate(i) ==
    /\ sess[i].phase = "open"
    /\ sess[i].nNext < MaxNext
    /\ \E env \in BackendIterateEnvs :
         \E r \in {tdsIterateForeignScan(Deref(sess[i].fdw_state), env)} :
         /\ sess' = [sess EXCEPT ![i] = [phase |-> IF Raised(r.err) THEN "aborted" ELSE "open",
                                         fdw_state |-> Ptr(r.festate),
                                         nNext |-> sess[i].nNext + 1]]
         /\ dblib' = LibApply(dblib, r.calls)
         /\ last' = Ran("tdsIterateForeignScan", r)
    /\ UNCHANGED <<catalog, fdw_state, slot, issued, host, baserel, path, vin, vout>>

BackendEnd(i) ==
    /\ sess[i].phase = "open"
    /\ \E r \in {tdsEndForeignScan(Deref(sess[i].fdw_state))} :
         /\ sess' = [sess EXCEPT ![i].phase = "closed"]
         /\ dblib' = LibApply(dblib, r.calls)
         /\ last' = Ran("tdsEndForeignScan", r)
    /\ UNCHANGED <<catalog, fdw_state, slot, issued, host, baserel, path, vin, vout>>

BackendPlan ==
    /\ sess[0].phase = "idle"
    /\ \E env \in BackendPlanEnvs :
         \E r \in {tdsGetForeignRelSize(catalog, baserel, env)} :
         /\ sess' = [sess EXCEPT ![0].phase = IF Raised(r.err) THEN "aborted" ELSE "closed"]
         /\ dblib' = LibApply(dblib, r.calls)
         /\ last' = Ran("tdsGetForeignRelSize", r)
         /\ baserel' = r.baserel
    /\ UNCHANGED <<catalog, fdw_state, slot, issued, host, path, vin, vout>>

NextBackend ==
    \/ \E i \in ScanIds : BackendBegin(i)
    \/ \E i \in ScanIds : BackendIterate(i)
    \/ \E i \in ScanIds : BackendEnd(i)
    \/ BackendPlan

SpecBackend == InitBackend /\ [][NextBackend]_vars

(***************************************************************************)
(* One scan or one planning call during which DB-Library calls the         *)
(* handlers: at most one call of a handler in each callback                *)
(***************************************************************************)
\* the calls of a callback that returned to it
Completed(r) ==
    IF Raised(r.cb.err) THEN SubSeq(r.calls, 1, Len(r.calls) - 1) ELSE r.calls

InitCallbacks ==
    /\ catalog = BackendCatalog
    /\ fdw_state = NULL
    /\ slot = NULL
    /\ last = NotRun
    /\ issued = NoCalls
    /\ host = HostInit
    /\ baserel = [rows |-> 0, tuples |-> 0]
    /\ path = NULL
    /\ vin = [options_list |-> <<>>, catalog |-> "none"]
    /\ vout = NULL
    /\ sess = NoSessions
    /\ dblib = LibInit(TRUE)

CallbackBegin ==
    /\ host.phase = "idle"
    /\ \E env \in BackendOpenEnvs(1) :
         \E p \in {tdsBeginForeignScan(catalog, env)} :
         \E r \in {Deliver(p, p, NoCallback)}
                  \cup {Deliver(p, tdsBeginForeignScan_Left(p, cb.at, cb.err), cb) :
                          cb \in Callbacks(dblib, p.calls)} :
         /\ fdw_state' = r.fdw_state
         /\ last' = Ran("tdsBeginForeignScan", r)
         /\ dblib' = LibApply(dblib, Completed(r))
         /\ issued' = Tally(issued, r.calls)
    /\ host' = [host EXCEPT !.phase = "scan"]
    /\ UNCHANGED <<catalog, slot, baserel, path, vin, vout, sess>>

CallbackIterate ==
    /\ host.phase = "scan"
    /\ fdw_state # NULL
    /\ host.nEnd = 0
    /\ host.nNext < MaxNext
    /\ \E env \in BackendIterateEnvs :
         \E p \in {tdsIterateForeignScan(Deref(fdw_state), env)} :
         \E r \in {Deliver(p, p, NoCallback)}
                  \cup {Deliver(p, tdsIterateForeignScan_Left(Deref(fdw_state), p, cb.at,
                                                              cb.err), cb) :
                          cb \in Callbacks(dblib, p.calls)} :
         /\ fdw_state' = Ptr(r.festate)
         /\ slot' = r.slot
         /\ last' = Ran("tdsIterateForeignScan", r)
         /\ dblib' = LibApply(dblib, Completed(r))
         /\ issued' = Tally(issued, r.calls)
         /\ host' = [host EXCEPT !.nNext = @ + 1,
                                 !.nRaised = IF Raised(r.err) THEN @ + 1 ELSE @,
                                 !.nRows = IF r.slot # NULL THEN @ + 1 ELSE @]
    /\ UNCHANGED <<catalog, baserel, path, vin, vout, sess>>

CallbackEnd ==
    /\ host.phase = "scan"
    /\ fdw_state # NULL
    /\ host.nEnd = 0
    /\ \E p \in {tdsEndForeignScan(Deref(fdw_state))} :
         \E r \in {Deliver(p, p, NoCallback)}
                  \cup {Deliver(p, tdsEndForeignScan_Left(Deref(fdw_state), p, cb.at, cb.err),
                                cb) :
                          cb \in Callbacks(dblib, p.calls)} :
         /\ fdw_state' = Ptr(r.festate)
         /\ last' = Ran("tdsEndForeignScan", r)
         /\ dblib' = LibApply(dblib, Completed(r))
         /\ issued' = Tally(issued, r.calls)
    /\ host' = [host EXCEPT !.nEnd = @ + 1]
    /\ UNCHANGED <<catalog, slot, baserel, path, vin, vout, sess>>

CallbackPlan ==
    /\ host.phase = "idle"
    /\ \E env \in BackendPlanEnvs :
         \E p \in {tdsGetForeignRelSize(catalog, baserel, env)} :
         \E r \in {Deliver(p, p, NoCallback)}
                  \cup {Deliver(p, tdsGetForeignRelSize_Left(baserel, p, cb.at, cb.err), cb) :
                          cb \in Callbacks(dblib, p.calls)} :
         /\ baserel' = r.baserel
         /\ last' = Ran("tdsGetForeignRelSize", r)
         /\ dblib' = LibApply(dblib, Completed(r))
         /\ issued' = Tally(issued, r.calls)
         /\ host' = [host EXCEPT !.phase = IF Raised(r.err) THEN "aborted" ELSE "sized"]
    /\ UNCHANGED <<catalog, fdw_state, slot, path, vin, vout, sess>>

NextCallbacks ==
    \/ CallbackBegin
    \/ CallbackIterate
    \/ CallbackEnd
    \/ CallbackPlan

SpecCallbacks == InitCallbacks /\ [][NextCallbacks]_vars

(***************************************************************************)
(* Validation: the host hands an option list and a catalog id to           *)
(* tds_fdw_validator                                                       *)
(***************************************************************************)
OptionNames ==
    {"servername", "language", "character_set", "port", "username", "password",
     "database", "query", "table", "hostname"}

OptionValues == {v_0, v_1433}

Contexts ==
    {"ForeignServerRelationId", "UserMappingRelationId", "ForeignTableRelationId",
     "ForeignDataWrapperRelationId"}

DefElems == {DefElem(n, v) : n \in OptionNames, v \in OptionValues}

OptionLists == UNION {[1..k -> DefElems] : k \in 0..MaxOpts}

InitValidator ==
    /\ catalog = NoCatalog
    /\ fdw_state = NULL
    /\ slot = NULL
    /\ last = NotRun
    /\ issued = NoCalls
    /\ host = HostInit
    /\ baserel = [rows |-> 0, tuples |-> 0]
    /\ path = NULL
    /\ vin \in [options_list : OptionLists, catalog : Contexts]
    /\ vout = NULL
    /\ sess = NoSessions
    /\ dblib = LibInit(TRUE)

Validate ==
    /\ vout = NULL
    /\ vout' = Ptr(tds_fdw_validator(vin.options_list, vin.catalog))
    /\ UNCHANGED <<catalog, fdw_state, slot, last, issued, host, baserel, path, vin, sess, dblib>>

NextValidator == Validate

SpecValidator == InitValidator /\ [][NextValidator]_vars

(***************************************************************************)
(* Properties                                                              *)
(***************************************************************************)
OpenOps == {"tdsBeginForeignScan", "tdsGetForeignRelSize", "tdsPlanForeignScan"}

PlanOps == {"tdsGetForeignRelSize", "tdsPlanForeignScan"}

FnsOf(calls) == [i \in 1..Len(calls) |-> calls[i].fn]

AllOptions(cat) == cat.f_table \o cat.f_server \o cat.f_mapping

Specifies(cat, name) ==
    \E i \in 1..Len(AllOptions(cat)) : AllOptions(cat)[i].defname = name

\* the value given for an option the catalog specifies (the last one given)
ValueOf(cat, name) ==
    LET opts == AllOptions(cat)
        i == CHOOSE k \in 1..Len(opts) :
                /\ opts[k].defname = name
                /\ \A j \in (k + 1)..Len(opts) : opts[j].defname # name
    IN opts[i].arg

\* resources a sequence of DB-Library calls leaves acquired and not released
HeldAfter(calls) ==
    { res \in {"runtime", "login", "connection"} :
        LET acq == CASE res = "runtime" -> "dbinit"
                     [] res = "login" -> "dblogin"
                     [] OTHER -> "dbopen"
            rel == CASE res = "runtime" -> "dbexit"
                     [] res = "login" -> "dbloginfree"
                     [] OTHER -> "dbclose"
        IN \E i \in 1..Len(calls) :
              /\ calls[i].fn = acq
              /\ calls[i].ret \notin {"FAIL", NULL_HANDLE}
              /\ \A j \in (i + 1)..Len(calls) : calls[j].fn # rel }

Handshake == {"dbcmd", "dbsqlexec", "dbresults"}

\* C1: tdsBeginForeignScan issues no dbcmd, dbsqlexec or dbresults; the first
\* call of tdsIterateForeignScan starts with dbcmd, dbsqlexec, dbresults (as far
\* as none of them fails) and goes on to dbnextrow when they succeed; every later
\* call issues no dbcmd, dbsqlexec or dbresults and exactly one dbnextrow, first;
\* so once a row was requested dbcmd was issued exactly once in the scan, and
\* dbsqlexec and dbresults at most once, exactly once after a first call that
\* raised no error.
C1_CompileExecuteOnceOnFirstNext ==
    host.phase = "scan" =>
      /\ (host.nNext = 0 => \A f \in Handshake \cup {"dbnextrow"} : issued[f] = 0)
      /\ (host.nNext >= 1 =>
            /\ issued["dbcmd"] = 1
            /\ issued["dbsqlexec"] <= 1
            /\ issued["dbresults"] <= issued["dbsqlexec"])
      /\ (last.op = "tdsIterateForeignScan" /\ host.nNext = 1 =>
            /\ Len(last.calls) >= 1
            /\ \A i \in 1..Min(3, Len(last.calls)) :
                  last.calls[i].fn = <<"dbcmd", "dbsqlexec", "dbresults">>[i]
            /\ (Len(last.calls) >= 4 => last.calls[4].fn = "dbnextrow")
            /\ (~Raised(last.err) =>
                  /\ Len(last.calls) >= 4
                  /\ \A f \in Handshake : issued[f] = 1))
      /\ (last.op = "tdsIterateForeignScan" /\ host.nNext > 1 =>
            /\ \A f \in Handshake : CountFn(last.calls, f) = 0
            /\ CountFn(last.calls, "dbnextrow") = 1
            /\ last.calls[1].fn = "dbnextrow")

C1_Witness ==
    /\ host.nNext = 3
    /\ last.op = "tdsIterateForeignScan"
    /\ slot # NULL
    /\ issued["dbcmd"] = 1
    /\ issued["dbsqlexec"] = 1
    /\ issued["dbresults"] = 1
    /\ issued["dbnextrow"] = 3

\* C2: in a scan whose tdsBeginForeignScan succeeded, whatever calls of
\* tdsIterateForeignScan were made and whether or not one of them raised an
\* error, nothing is released before tdsEndForeignScan is called, and when it has
\* been called once the connection handle (dbclose), the login handle
\* (dbloginfree) and the library (dbexit) have each been released exactly once,
\* each of them having been acquired exactly once, and it was the handles of
\* the execution state that were released.
C2_CloseReleasesEachOnce ==
    (host.phase = "scan" /\ fdw_state # NULL) =>
      /\ issued["dbinit"] = 1 /\ issued["dblogin"] = 1 /\ issued["dbopen"] = 1
      /\ (host.nEnd = 0 =>
            issued["dbclose"] = 0 /\ issued["dbloginfree"] = 0 /\ issued["dbexit"] = 0)
      /\ (host.nEnd = 1 =>
            /\ issued["dbclose"] = 1 /\ issued["dbloginfree"] = 1 /\ issued["dbexit"] = 1
            /\ last.calls[1].arg = <<DBPROCESS>>
            /\ last.calls[2].arg = <<LOGINREC>>)

C2_Witness ==
    /\ host.phase = "scan"
    /\ host.nEnd = 1
    /\ host.nNext >= 2
    /\ host.nRaised >= 1
    /\ issued["dbclose"] = 1
    /\ issued["dbloginfree"] = 1
    /\ issued["dbexit"] = 1

\* C3: when opening the session fails (dbinit, dblogin, dbopen or dbuse), in
\* tdsBeginForeignScan as in the planning callbacks, nothing the callback had
\* acquired is still held when the error is reported, and no execution state is
\* visible.
C3_FailedOpenHoldsNothing ==
    (last.op \in OpenOps /\ Raised(last.err) /\ CountFn(last.calls, "dbcmd") = 0) =>
      /\ HeldAfter(last.calls) = {}
      /\ fdw_state = NULL

\* C4: when tdsGetForeignRelSize (tdsPlanForeignScan before 9.2) got as far as
\* running the query, the session is closed on exit, whether the row count was
\* obtained or dbcmd, dbsqlexec, dbresults or dbnextrow failed.
C4_EstimateAlwaysClosesSession ==
    (last.op \in PlanOps /\ CountFn(last.calls, "dbcmd") > 0) =>
      HeldAfter(last.calls) = {}

\* C5: when the catalog specifies both query and table, the callbacks that
\* resolve the options raise a configuration error and make no DB-Library call.
C5_QueryAndTableRejectedByResolution ==
    (last.op \in OpenOps /\ Specifies(catalog, "query") /\ Specifies(catalog, "table")) =>
      /\ last.err.sqlstate = "ERRCODE_SYNTAX_ERROR"
      /\ last.calls = <<>>

\* C6: when the catalog specifies neither query nor table, the callbacks that
\* resolve the options raise the configuration error "Either a table or a query
\* must be specified", and no DB-Library call is made in that invocation.
C6_NeitherQueryNorTableRejected ==
    (last.op \in OpenOps /\ ~Specifies(catalog, "query") /\ ~Specifies(catalog, "table")) =>
      /\ last.err.sqlstate = "ERRCODE_SYNTAX_ERROR"
      /\ last.err.msg = "Either a table or a query must be specified"
      /\ last.calls = <<>>
      /\ issued = NoCalls
      /\ fdw_state = NULL
      /\ host.phase \in {"scan", "aborted"}

C6_Witness ==
    /\ last.op = "tdsBeginForeignScan"
    /\ ~Specifies(catalog, "query")
    /\ ~Specifies(catalog, "table")
    /\ Specifies(catalog, "servername")
    /\ Raised(last.err)

\* C7: every query handed to dbcmd, in a scan and in planning, is the text
\* SELECT * FROM followed by the table name, whole, when the catalog specifies
\* table and not query, and is the query of the catalog when it specifies query;
\* the execution state of a scan holds the same text.
C7_ExpectedQuery ==
    IF Specifies(catalog, "query") THEN ValueOf(catalog, "query")
    ELSE <<"S", "E", "L", "E", "C", "T", " ", "*", " ", "F", "R", "O", "M", " ">>
         \o ValueOf(catalog, "table")

C7_QuerySentIsResolvedQuery ==
    /\ \A i \in 1..Len(last.calls) :
          last.calls[i].fn = "dbcmd" => last.calls[i].arg = Ptr(C7_ExpectedQuery)
    /\ (fdw_state # NULL => Deref(fdw_state).query = Ptr(C7_ExpectedQuery))

C7_Witness ==
    /\ last.op = "tdsIterateForeignScan"
    /\ CountFn(last.calls, "dbcmd") = 1
    /\ Specifies(catalog, "table")
    /\ ~Specifies(catalog, "query")
    /\ last.calls[1].arg = Ptr(<<"S", "E", "L", "E", "C", "T", " ", "*", " ", "F", "R", "O",
                                 "M", " ", "e", "m", "p", "l", "o", "y", "e", "e", "s">>)

\* names the validator has to accept in each context
C9_ValidNames(context) ==
    CASE context = "ForeignServerRelationId" ->
           {"servername", "language", "character_set", "port"}
      [] context = "UserMappingRelationId" -> {"username", "password"}
      [] context = "ForeignTableRelationId" -> {"database", "query", "table"}
      [] OTHER -> {}

C9_ValidNamesListed(context) ==
    CASE context = "ForeignServerRelationId" ->
           <<"servername", ", ", "language", ", ", "character_set", ", ", "port">>
      [] context = "UserMappingRelationId" -> <<"username", ", ", "password">>
      [] context = "ForeignTableRelationId" -> <<"database", ", ", "query", ", ", "table">>
      [] OTHER -> <<"<none>">>

HasKeyTwice(list) ==
    \E i, j \in 1..Len(list) : i < j /\ list[i].defname = list[j].defname

\* C8: an option list whose names are all valid for the context, that does not
\* give both query and table and that gives some key twice is rejected by the
\* validator with the error "Redundant option", whatever the values.
C8_KeyTwiceIsRedundant ==
    (/\ vout # NULL
     /\ \A i \in 1..Len(vin.options_list) :
           vin.options_list[i].defname \in C9_ValidNames(vin.catalog)
     /\ ~(/\ \E i \in 1..Len(vin.options_list) : vin.options_list[i].defname = "query"
          /\ \E i \in 1..Len(vin.options_list) : vin.options_list[i].defname = "table")
     /\ HasKeyTwice(vin.options_list))
    => Deref(vout).msg = "Redundant option"

\* C9: the validator accepts a list only if every name in it belongs to the set
\* of its context; it raises "Invalid option" only for a name that does not
\* belong to that set, namely the first such name of the list, and always for a
\* list that starts with such a name; the error names the option and its hint
\* lists exactly the names of the context.
C9_NameValidIffInContextSet ==
    vout # NULL =>
      LET e == Deref(vout)
          list == vin.options_list
          valid == C9_ValidNames(vin.catalog)
      IN
      /\ (~Raised(e) => \A i \in 1..Len(list) : list[i].defname \in valid)
      /\ (e.sqlstate = "ERRCODE_FDW_INVALID_OPTION_NAME" =>
            /\ e.arg[1] \notin valid
            /\ \E i \in 1..Len(list) :
                  /\ list[i].defname = e.arg[1]
                  /\ \A j \in 1..(i - 1) : list[j].defname \in valid
            /\ e.hint = C9_ValidNamesListed(vin.catalog))
      /\ (list # <<>> /\ list[1].defname \notin valid =>
            /\ e.sqlstate = "ERRCODE_FDW_INVALID_OPTION_NAME"
            /\ e.arg = <<list[1].defname>>)
      /\ (Len(list) = 1 /\ list[1].defname \in valid => ~Raised(e))

C9_Witness ==
    /\ vout # NULL
    /\ vin.catalog = "ForeignServerRelationId"
    /\ Len(vin.options_list) = 2
    /\ vin.options_list[1].defname = "port"
    /\ vin.options_list[2].defname = "username"
    /\ Deref(vout).sqlstate = "ERRCODE_FDW_INVALID_OPTION_NAME"
    /\ Deref(vout).arg = <<"username">>

C10_Loopback ==
    { <<"1", "2", "7", ".", "0", ".", "0", ".", "1">>,
      <<"l", "o", "c", "a", "l", "h", "o", "s", "t">> }

\* C10: the costs handed to the planner have startup cost 0 when the servername
\* of the catalog is 127.0.0.1 or localhost or is not given, and 25 for every
\* other servername, whatever the row count; the total cost is the startup cost
\* plus the row count.
C10_StartupAndTotalCost ==
    path # NULL =>
      LET p == Deref(path)
          local == \/ ~Specifies(catalog, "servername")
                   \/ ValueOf(catalog, "servername") \in C10_Loopback
      IN
      /\ p.startup_cost = (IF local THEN 0 ELSE 25)
      /\ p.rows = baserel.rows
      /\ p.total_cost = p.startup_cost + baserel.rows

C10_Witness ==
    /\ last.op = "tdsGetForeignPaths"
    /\ path # NULL
    /\ ~Specifies(catalog, "servername")
    /\ Deref(path).startup_cost = 0
    /\ Deref(path).total_cost = 3

\* the column (from 1) that the i-th call of a row fetch belongs to: the
\* argument of the last dbcoltype issued up to it, 0 before the first column
ColumnOfCall(calls, i) ==
    LET js == {j \in 1..i : calls[j].fn = "dbcoltype"}
    IN IF js = {} THEN 0
       ELSE calls[CHOOSE j \in js : \A k \in js : k <= j].arg[1]

\* the calls with the given names issued for column k
ColumnCalls(calls, k, fns) ==
    {i \in 1..Len(calls) : calls[i].fn \in fns /\ ColumnOfCall(calls, i) = k}

\* the columns fetched by a sequence of calls
ColumnsOf(calls) ==
    {calls[j].arg[1] : j \in {i \in 1..Len(calls) : calls[i].fn = "dbcoltype"}}

\* column k could not be converted: dbwillconvert answered FALSE, or dbconvert
\* answered FAIL or -1
Unconvertible(calls, k) ==
    \/ \E i \in ColumnCalls(calls, k, {"dbwillconvert"}) : calls[i].ret = "FALSE"
    \/ \E i \in ColumnCalls(calls, k, {"dbconvert"}) : calls[i].ret \in {"FAIL", "-1"}

\* C11: a call of tdsIterateForeignScan that fetched a row with a column that
\* could not be converted (dbwillconvert answered FALSE, or dbconvert answered
\* FAIL or -1) raises no error and delivers the row, with one value for every
\* column fetched and NULL for the column that could not be converted.
C11_UnconvertibleColumnIsNull ==
    last.op = "tdsIterateForeignScan" =>
      \A k \in ColumnsOf(last.calls) :
        Unconvertible(last.calls, k) =>
          /\ ~Raised(last.err)
          /\ slot # NULL
          /\ Len(Deref(slot)) = Cardinality(ColumnsOf(last.calls))
          /\ Deref(slot)[k] = NULL

\* DB-Library reported no data for column k: dbdatlen answered 0 or dbdata
\* answered a NULL pointer
NoData(calls, k) ==
    \/ \E i \in ColumnCalls(calls, k, {"dbdatlen"}) : calls[i].ret = 0
    \/ \E i \in ColumnCalls(calls, k, {"dbdata"}) : calls[i].ret = NULL_HANDLE

\* C12: in a row fetched by tdsIterateForeignScan, a column for which dbdatlen
\* answered 0 or dbdata answered a NULL pointer is delivered as NULL, and
\* neither dbwillconvert nor dbconvert is called for that column.
C12_NoDataColumnIsNullUnconverted ==
    last.op = "tdsIterateForeignScan" =>
      \A k \in ColumnsOf(last.calls) :
        NoData(last.calls, k) =>
          /\ slot # NULL
          /\ Deref(slot)[k] = NULL
          /\ ColumnCalls(last.calls, k, {"dbwillconvert", "dbconvert"}) = {}

C12_Witness ==
    /\ last.op = "tdsIterateForeignScan"
    /\ slot = Ptr(<<NULL>>)
    /\ \E i \in ColumnCalls(last.calls, 1, {"dbdatlen"}) : last.calls[i].ret = 1
    /\ \E i \in ColumnCalls(last.calls, 1, {"dbdata"}) : last.calls[i].ret = NULL_HANDLE
    /\ CountFn(last.calls, "dbwillconvert") = 0

\* the answer of the dbnextrow call in a sequence of calls with exactly one
NextRowAnswer(calls) ==
    calls[CHOOSE i \in 1..Len(calls) : calls[i].fn = "dbnextrow"].ret

\* C13: when dbnextrow answers BUF_FULL, tdsIterateForeignScan raises an error
\* of the out-of-memory class; when it answers FAIL or any other code that is
\* neither REG_ROW nor NO_MORE_ROWS, it raises an execution error; in both
\* cases no row is delivered, the row counter is not advanced, dbnextrow was
\* called exactly once in that call and nothing is called after it.
C13_NextRowFailureIsFatal ==
    (last.op = "tdsIterateForeignScan" /\ CountFn(last.calls, "dbnextrow") > 0) =>
      LET ret == NextRowAnswer(last.calls) IN
      /\ CountFn(last.calls, "dbnextrow") = 1
      /\ ret \notin {"REG_ROW", "NO_MORE_ROWS"} =>
           /\ last.err.sqlstate = (IF ret = "BUF_FULL"
                                   THEN "ERRCODE_FDW_OUT_OF_MEMORY"
                                   ELSE "ERRCODE_FDW_UNABLE_TO_CREATE_EXECUTION")
           /\ slot = NULL
           /\ last.calls[Len(last.calls)].fn = "dbnextrow"
           /\ Deref(fdw_state).row = issued["dbnumcols"]
      /\ ret \in {"REG_ROW", "NO_MORE_ROWS"} => ~Raised(last.err)

C13_Witness ==
    /\ last.op = "tdsIterateForeignScan"
    /\ host.nNext = 2
    /\ Deref(fdw_state).row = 1
    /\ CountFn(last.calls, "dbnextrow") = 1
    /\ NextRowAnswer(last.calls) = "BUF_FULL"
    /\ last.err.sqlstate = "ERRCODE_FDW_OUT_OF_MEMORY"
    /\ slot = NULL

\* the answer of the dbresults call in a sequence of calls with one
ResultsAnswer(calls) ==
    calls[CHOOSE i \in 1..Len(calls) : calls[i].fn = "dbresults"].ret

\* C14: dbresults is called only in the first call of tdsIterateForeignScan of
\* a scan; when it answers NO_MORE_RESULTS, FAIL or a code that is not SUCCEED,
\* that call raises an execution error, delivers no row and calls nothing
\* after dbresults, so dbnextrow is not reached; the call goes on to fetch
\* rows with dbnextrow only when dbresults answered SUCCEED.
C14_ResultsFailureStopsFirstNext ==
    (last.op = "tdsIterateForeignScan" /\ CountFn(last.calls, "dbresults") > 0) =>
      LET ret == ResultsAnswer(last.calls) IN
      /\ host.nNext = 1
      /\ CountFn(last.calls, "dbresults") = 1
      /\ ret # "SUCCEED" =>
           /\ last.err.sqlstate = "ERRCODE_FDW_UNABLE_TO_CREATE_EXECUTION"
           /\ last.err.arg = Deref(fdw_state).query
           /\ slot = NULL
           /\ last.calls[Len(last.calls)].fn = "dbresults"
           /\ CountFn(last.calls, "dbnextrow") = 0
           /\ issued["dbnextrow"] = 0
           /\ Deref(fdw_state).row = 0
      /\ ret = "SUCCEED" => CountFn(last.calls, "dbnextrow") = 1

C14_Witness ==
    /\ last.op = "tdsIterateForeignScan"
    /\ host.nNext = 1
    /\ CountFn(last.calls, "dbresults") = 1
    /\ ResultsAnswer(last.calls) = "NO_MORE_RESULTS"
    /\ last.err.sqlstate = "ERRCODE_FDW_UNABLE_TO_CREATE_EXECUTION"
    /\ issued["dbnextrow"] = 0

\* C15: when dbresults answers NO_MORE_RESULTS in tdsGetRowCount, the planning
\* callback raises no error and reports 0 rows to the planner, and neither
\* dbnextrow nor DBCOUNT is called.
C15_NoMoreResultsEstimatesZero ==
    (/\ last.op \in PlanOps
     /\ CountFn(last.calls, "dbresults") > 0
     /\ ResultsAnswer(last.calls) = "NO_MORE_RESULTS") =>
      /\ ~Raised(last.err)
      /\ baserel = [rows |-> 0, tuples |-> 0]
      /\ CountFn(last.calls, "dbnextrow") = 0
      /\ CountFn(last.calls, "DBCOUNT") = 0
      /\ host.phase # "aborted"
      /\ last.op = "tdsPlanForeignScan" => path # NULL /\ Deref(path).rows = 0

C15_Witness ==
    /\ last.op = "tdsGetForeignRelSize"
    /\ CountFn(last.calls, "dbresults") = 1
    /\ ResultsAnswer(last.calls) = "NO_MORE_RESULTS"
    /\ host.phase = "sized"
    /\ baserel.rows = 0
    /\ issued["dbnextrow"] = 0
    /\ issued["dbclose"] = 1

\* a call of the query handshake or the row fetch failed: dbcmd or dbsqlexec
\* answered FAIL, dbresults answered FAIL or an unrecognised code, or
\* dbnextrow answered BUF_FULL, FAIL or an unrecognised code
QueryFailed(calls) ==
    \E i \in 1..Len(calls) :
       \/ calls[i].fn \in {"dbcmd", "dbsqlexec"} /\ calls[i].ret = "FAIL"
       \/ calls[i].fn = "dbresults" /\ calls[i].ret \notin {"SUCCEED", "NO_MORE_RESULTS"}
       \/ calls[i].fn = "dbnextrow" /\ calls[i].ret \notin {"REG_ROW", "NO_MORE_ROWS"}

\* C16: when dbcmd, dbsqlexec, dbresults (FAIL or an unrecognised code) or the
\* dbnextrow call (BUF_FULL, FAIL or an unrecognised code) fails in
\* tdsGetRowCount, the planning callback raises an error at the failing call:
\* nothing is called after it, DBCOUNT is not read, no row count is stored in
\* baserel and no path is handed to the planner.
C16_EstimateFailureIsError ==
    (last.op \in PlanOps /\ QueryFailed(last.calls)) =>
      /\ Raised(last.err)
      /\ last.err.sqlstate \in {"ERRCODE_FDW_UNABLE_TO_CREATE_EXECUTION",
                                "ERRCODE_FDW_OUT_OF_MEMORY"}
      /\ last.err.sqlstate = "ERRCODE_FDW_OUT_OF_MEMORY"
           <=> last.calls[Len(last.calls)].ret = "BUF_FULL"
      /\ last.calls[Len(last.calls)].fn \in {"dbcmd", "dbsqlexec", "dbresults", "dbnextrow"}
      /\ CountFn(last.calls, "dbnextrow") <= 1
      /\ CountFn(last.calls, "DBCOUNT") = 0
      /\ baserel = [rows |-> 0, tuples |-> 0]
      /\ path = NULL
      /\ host.phase = "aborted"

C16_Witness ==
    /\ last.op = "tdsGetForeignRelSize"
    /\ CountFn(last.calls, "dbnextrow") = 1
    /\ NextRowAnswer(last.calls) = "FAIL"
    /\ last.err.sqlstate = "ERRCODE_FDW_UNABLE_TO_CREATE_EXECUTION"
    /\ host.phase = "aborted"
    /\ issued["DBCOUNT"] = 0

\* C17: in every callback that opens a session (the scan's begin and the
\* planning callbacks), once dbinit has succeeded dberrhandle(tds_err_handler)
\* and dbmsghandle(tds_msg_handler) are the next two calls, each made exactly
\* once, so both come after dbinit and before every other DB-Library call;
\* dbinit is the first call, and when it fails nothing else is called.
C17_HandlersInstalledRightAfterInit ==
    (last.op \in OpenOps /\ last.calls # <<>>) =>
      /\ last.calls[1].fn = "dbinit"
      /\ CountFn(last.calls, "dbinit") = 1
      /\ last.calls[1].ret = "FAIL" => Len(last.calls) = 1
      /\ last.calls[1].ret # "FAIL" =>
           /\ Len(last.calls) >= 4
           /\ last.calls[2] = Call("dberrhandle", <<"tds_err_handler">>, "SUCCEED")
           /\ last.calls[3] = Call("dbmsghandle", <<"tds_msg_handler">>, "SUCCEED")
           /\ CountFn(last.calls, "dberrhandle") = 1
           /\ CountFn(last.calls, "dbmsghandle") = 1
           /\ \A i \in 4..Len(last.calls) :
                 last.calls[i].fn \in Fns \ {"dbinit", "dberrhandle", "dbmsghandle"}

C17_Witness ==
    /\ last.op = "tdsGetForeignRelSize"
    /\ ~Raised(last.err)
    /\ Len(last.calls) > 4
    /\ last.calls[1].fn = "dbinit"
    /\ last.calls[2].fn = "dberrhandle"
    /\ last.calls[3].fn = "dbmsghandle"
    /\ last.calls[4].fn = "dblogin"
    /\ CountFn(last.calls, "dbopen") = 1

\* the position of a statement in a sequence of statements, 0 when absent
StepPos(steps, name) ==
    IF \E i \in 1..Len(steps) : steps[i] = name
    THEN CHOOSE i \in 1..Len(steps) : steps[i] = name
    ELSE 0

\* statement i of a callback runs while the session it opened is open: after
\* tdsSetupConnection and before dbclose
SessionOpenAt(steps, i) ==
    /\ StepPos(steps, "tdsSetupConnection") > 0
    /\ StepPos(steps, "tdsSetupConnection") < i
    /\ i < StepPos(steps, "dbclose")

CostSteps == {"tdsGetStartupCost", "total_cost"}

\* C18 as stated: in a planning that completes, the cost estimate (startup and
\* total cost) is computed while the transient session is open, after the row
\* count, and the options are resolved once, before the session is opened, so
\* the callback that computes the costs does not resolve them again.
C18_CostWhileSessionOpen ==
    (host.phase = "planned" /\ last.op \in {"tdsGetForeignPaths", "tdsPlanForeignScan"}) =>
      /\ \A i \in 1..Len(last.steps) :
            last.steps[i] \in CostSteps =>
              /\ SessionOpenAt(last.steps, i)
              /\ StepPos(last.steps, "tdsGetRowCount") < i
      /\ last.op = "tdsGetForeignPaths" => StepPos(last.steps, "tdsGetOptions") = 0
      /\ last.op = "tdsPlanForeignScan" => StepPos(last.steps, "tdsGetOptions") = 1

\* C18 amended: a planning callback that opens a session resolves the options
\* first, then opens the session, estimates the row count and closes the
\* session, in this order.  From PostgreSQL 9.2 on (tdsGetForeignRelSize then
\* tdsGetForeignPaths) the costs are computed by the second callback, after
\* the session of the first was closed and with no session open, and that
\* callback resolves the options a second time before computing them.  Before
\* 9.2 (tdsPlanForeignScan) the options are resolved once, the startup cost is
\* computed before the session is opened and the total cost after the row
\* count, while the session is still open.
C18_PlanningOrder ==
    /\ (last.op = "tdsGetForeignRelSize" /\ ~Raised(last.err)) =>
         /\ last.steps = <<"tdsGetOptions", "dbinit", "dblogin", "tdsSetupConnection",
                           "tdsGetRowCount", "dbclose", "dbloginfree", "dbexit">>
         /\ FnsOf(SubSeq(last.calls, Len(last.calls) - 2, Len(last.calls)))
               = <<"dbclose", "dbloginfree", "dbexit">>
         /\ path = NULL
    /\ (last.op = "tdsGetForeignPaths" /\ ~Raised(last.err)) =>
         /\ last.steps = <<"tdsGetOptions", "tdsGetStartupCost", "total_cost", "add_path">>
         /\ last.calls = <<>>
         /\ issued["dbopen"] = 1 /\ issued["dbclose"] = 1 /\ issued["dbexit"] = 1
         /\ path # NULL
    /\ (last.op = "tdsPlanForeignScan" /\ ~Raised(last.err)) =>
         /\ last.steps = <<"tdsGetOptions", "tdsGetStartupCost", "dbinit", "dblogin",
                           "tdsSetupConnection", "tdsGetRowCount", "total_cost",
                           "dbclose", "dbloginfree", "dbexit">>
         /\ HeldAfter(last.calls) = {}
         /\ path # NULL
    /\ (last.op \in PlanOps /\ last.calls # <<>>) => last.steps[1] = "tdsGetOptions"

C18_Witness ==
    /\ last.op = "tdsGetForeignPaths"
    /\ host.phase = "planned"
    /\ path # NULL
    /\ StepPos(last.steps, "tdsGetOptions") = 1
    /\ issued["dbclose"] = 1
    /\ baserel.rows = 3

\* the session of scan i is usable: the library is initialised, the handlers
\* of this module are the installed ones, and the LOGINREC and the DBPROCESS
\* the scan holds are still allocated
SessionUsable(i) ==
    LET festate == Deref(sess[i].fdw_state) IN
    /\ dblib.up
    /\ dblib.errhandle = "tds_err_handler"
    /\ dblib.msghandle = "tds_msg_handler"
    /\ festate.login \in dblib.logins
    /\ festate.dbproc \in dblib.dbprocs

\* C19: with two scans and a planning call interleaved in one backend
\* process, a scan that tdsBeginForeignScan opened and that was neither ended
\* nor aborted keeps a usable session (initialised library, its LOGINREC, its
\* DBPROCESS), its own handles and its query, whatever the other callers do,
\* their tdsEndForeignScan and the cleanup of tdsGetForeignRelSize included.
C19_InterleavedCallersIsolated ==
    \A i \in ScanIds :
       sess[i].phase = "open" =>
         /\ SessionUsable(i)
         /\ Deref(sess[i].fdw_state).login = LoginOf(i)
         /\ Deref(sess[i].fdw_state).dbproc = DbprocOf(i)
         /\ Deref(sess[i].fdw_state).query = Ptr(query_prefix \o v_t)

\* C20: when tdsReScanForeignScan was called on a scan whose query was already
\* issued (festate->first is 0, dbcmd, dbsqlexec and dbresults were called and
\* no error was raised) and tdsIterateForeignScan is called next, that
\* call either issues the query again (dbcmd, dbsqlexec) or raises an error; it
\* does not go straight to dbnextrow and deliver the next row, or the end of
\* the data, of the pass that was under way.
C20_NextAfterRescanRestartsOrFails ==
    [][ (/\ last.op = "tdsReScanForeignScan"
         /\ fdw_state # NULL
         /\ Deref(fdw_state).first = 0
         /\ issued["dbresults"] = 1
         /\ host.nRaised = 0
         /\ last'.op = "tdsIterateForeignScan")
        => \/ Raised(last'.err)
           \/ /\ CountFn(last'.calls, "dbcmd") = 1
              /\ CountFn(last'.calls, "dbsqlexec") = 1 ]_vars

\* C21: every call of tdsEndForeignScan, whether the scan had issued its query
\* or not, had reached the end of the rows or not, and whether or not a call of
\* tdsIterateForeignScan had raised an error, makes exactly the calls
\* dbclose(festate->dbproc), dbloginfree(festate->login), dbexit(), in this
\* order, and raises no error.
C21_CloseOrder ==
    last.op = "tdsEndForeignScan" =>
      /\ last.calls = <<Call("dbclose", <<Deref(fdw_state).dbproc>>, "void"),
                        Call("dbloginfree", <<Deref(fdw_state).login>>, "void"),
                        Call("dbexit", <<>>, "void")>>
      /\ ~Raised(last.err)

C21_Witness ==
    /\ last.op = "tdsEndForeignScan"
    /\ host.nEnd = 1
    /\ host.nRaised = 1
    /\ Deref(fdw_state).first = 0
    /\ Deref(fdw_state).row = 1
    /\ FnsOf(last.calls) = <<"dbclose", "dbloginfree", "dbexit">>

\* C22: a second call of tdsEndForeignScan on the same scan, whatever calls of
\* tdsIterateForeignScan came before and whether or not one raised an error,
\* releases nothing a second time: it makes no dbclose, dbloginfree or dbexit
\* call, so each of them was called once in the scan, and it raises no error.
C22_SecondCloseReleasesNothing ==
    (last.op = "tdsEndForeignScan" /\ host.nEnd >= 2) =>
      /\ ~Raised(last.err)
      /\ CountFn(last.calls, "dbclose") = 0
      /\ CountFn(last.calls, "dbloginfree") = 0
      /\ CountFn(last.calls, "dbexit") = 0
      /\ issued["dbclose"] = 1 /\ issued["dbloginfree"] = 1 /\ issued["dbexit"] = 1

C24_EstimateIsReportedCount ==
    last.op \in PlanOps =>
      /\ CountFn(last.calls, "dbnextrow") <= 1
      /\ CountFn(last.calls, "DBCOUNT") <= 1
      /\ (/\ ~Raised(last.err)
          /\ CountFn(last.calls, "dbresults") = 1
          /\ ResultsAnswer(last.calls) = "SUCCEED")
           => \E i \in 1..(Len(last.calls) - 1) :
                 /\ last.calls[i].fn = "dbnextrow"
                 /\ last.calls[i + 1].fn = "DBCOUNT"
                 /\ baserel.rows = last.calls[i + 1].ret
                 /\ baserel.tuples = last.calls[i + 1].ret

C24_Witness ==
    /\ last.op = "tdsGetForeignRelSize"
    /\ ~Raised(last.err)
    /\ CountFn(last.calls, "dbnextrow") = 1
    /\ NextRowAnswer(last.calls) = "REG_ROW"
    /\ baserel.rows = 3

\* C25: a callback that opens a session calls dbuse at most once, and calls it
\* exactly when the catalog gives a database and dbopen returned a connection:
\* dbuse then comes right after that dbopen and names the database of the
\* catalog.  When dbuse answers FAIL the callback raises an error of the
\* class ERRCODE_FDW_UNABLE_TO_ESTABLISH_CONNECTION, dbuse is its last call,
\* and no dbcmd or dbsqlexec is issued: the scan gets no execution state and
\* the planning callback raises before tdsGetRowCount.
C25_UseDatabaseIffGiven ==
    last.op \in OpenOps =>
      LET calls == last.calls
          opened == \E i \in 1..Len(calls) :
                       calls[i].fn = "dbopen" /\ calls[i].ret # NULL_HANDLE
      IN
      /\ CountFn(calls, "dbuse") <= 1
      /\ CountFn(calls, "dbuse") = 1 <=> (opened /\ Specifies(catalog, "database"))
      /\ \A i \in 1..Len(calls) :
            calls[i].fn = "dbuse" =>
              /\ calls[i - 1].fn = "dbopen"
              /\ calls[i].arg = Ptr(ValueOf(catalog, "database"))
              /\ calls[i].ret = "FAIL" =>
                   /\ last.err.sqlstate = "ERRCODE_FDW_UNABLE_TO_ESTABLISH_CONNECTION"
                   /\ last.err.arg = Ptr(ValueOf(catalog, "database"))
                   /\ i = Len(calls)
                   /\ issued["dbcmd"] = 0
                   /\ issued["dbsqlexec"] = 0
                   /\ fdw_state = NULL

C25_Witness ==
    /\ last.op = "tdsBeginForeignScan"
    /\ Specifies(catalog, "database")
    /\ CountFn(last.calls, "dbuse") = 1
    /\ last.calls[Len(last.calls)].fn = "dbuse"
    /\ last.calls[Len(last.calls)].ret = "FAIL"
    /\ last.err.sqlstate = "ERRCODE_FDW_UNABLE_TO_ESTABLISH_CONNECTION"

\* C28: in a scan, whenever dbnextrow has been called, dbcmd, dbsqlexec and
\* dbresults were each called before it in the scan and dbresults answered
\* SUCCEED, also when a call of tdsIterateForeignScan follows one that raised
\* an error in dbcmd, dbsqlexec or dbresults.
C28_NextRowOnlyAfterHandshake ==
    (host.phase = "scan" /\ issued["dbnextrow"] > 0) =>
      /\ issued["dbcmd"] = 1
      /\ issued["dbsqlexec"] = 1
      /\ issued["dbresults"] = 1
      /\ host.nResultSets = 1

\* the servername and the port the options of the catalog resolve to
C29_Servername(cat) ==
    IF Specifies(cat, "servername") THEN ValueOf(cat, "servername") ELSE DEFAULT_SERVERNAME

C29_Port(cat) == IF Specifies(cat, "port") THEN atoi(ValueOf(cat, "port")) ELSE 0

\* C29: whenever dbopen is called, the string handed to it is the servername
\* when the port is 0 and servername:port otherwise, and with its terminator
\* it fits in the buffer allocated for it, strlen(servername) + 10 bytes.
C29_ConnStringFitsBuffer ==
    last.op \in OpenOps =>
      \A i \in 1..Len(last.calls) :
         last.calls[i].fn = "dbopen" =>
           /\ last.calls[i].arg =
                (IF C29_Port(catalog) = 0
                 THEN C29_Servername(catalog)
                 ELSE C29_Servername(catalog) \o <<":">> \o IntToStr(C29_Port(catalog)))
           /\ strlen(last.calls[i].arg) + 1 <= strlen(C29_Servername(catalog)) + 10

\* C26: whenever DB-Library calls the error handler during a callback, for
\* every error number and severity, the callback ends in the error
\* ERRCODE_FDW_UNABLE_TO_CREATE_EXECUTION carrying the library's error
\* number and text, the operating system's number and text and the
\* severity; the call that was in flight is the last call of the callback
\* and does not return to it, so nothing is retried, nothing follows it and
\* no row is delivered.
C26_ErrorHandlerIsFatal ==
    last.cb.handler = "tds_err_handler" =>
      /\ Raised(last.err)
      /\ last.err.sqlstate = "ERRCODE_FDW_UNABLE_TO_CREATE_EXECUTION"
      /\ last.err.arg = <<IntToStr(last.cb.event.dberr), last.cb.event.dberrstr,
                          IntToStr(last.cb.event.oserr), last.cb.event.oserrstr,
                          IntToStr(last.cb.event.severity)>>
      /\ last.cb.ret = "none"
      /\ Len(last.calls) = last.cb.at
      /\ last.calls[last.cb.at].ret = "longjmp"
      /\ last.op = "tdsIterateForeignScan" => slot = NULL
      /\ last.op = "tdsBeginForeignScan" => fdw_state = NULL

C26_Witness ==
    /\ last.op = "tdsIterateForeignScan"
    /\ last.cb.handler = "tds_err_handler"
    /\ last.cb.event.severity = 0
    /\ last.calls[last.cb.at].fn = "dbnextrow"
    /\ host.nNext = 2
    /\ Raised(last.err)

\* what a callback does to the scan and to the estimate
C27_Effect(calls, err, state, sl, rel) ==
    [calls |-> calls, err |-> err, fdw_state |-> state, slot |-> sl, baserel |-> rel]

\* the effects callback op can have from the current state when DB-Library
\* calls no handler during it
C27_WithoutMessage(op) ==
    CASE op = "tdsBeginForeignScan" ->
           { C27_Effect(r.calls, r.err, r.fdw_state, slot, baserel) :
               r \in {tdsBeginForeignScan(catalog, env) : env \in BackendOpenEnvs(1)} }
      [] op = "tdsIterateForeignScan" ->
           { C27_Effect(r.calls, r.err, Ptr(r.festate), r.slot, baserel) :
               r \in {tdsIterateForeignScan(Deref(fdw_state), env) :
                        env \in BackendIterateEnvs} }
      [] op = "tdsEndForeignScan" ->
           { C27_Effect(r.calls, r.err, Ptr(r.festate), slot, baserel) :
               r \in {tdsEndForeignScan(Deref(fdw_state))} }
      [] op = "tdsGetForeignRelSize" ->
           { C27_Effect(r.calls, r.err, fdw_state, slot, r.baserel) :
               r \in {tdsGetForeignRelSize(catalog, baserel, env) :
                        env \in BackendPlanEnvs} }

\* C27: whenever DB-Library calls the message handler during a callback,
\* for every message number and severity, the handler emits a notice
\* carrying the message, raises no error and returns 0, and the callback
\* makes the calls, raises the error and leaves the execution state (first,
\* row), the slot and the estimate that it does, from the same state and
\* with the same answers of DB-Library, when no handler is called.
C27_MessageHandlerOnlyNotices ==
    [][ last'.cb.handler = "tds_msg_handler" =>
          /\ ~Raised(last'.cb.err)
          /\ last'.cb.ret = "0"
          /\ last'.cb.notice # NULL
          /\ Deref(last'.cb.notice).arg =
               <<IntToStr(last'.cb.event.msgno), IntToStr(last'.cb.event.msgstate),
                 last'.cb.event.msgtext, last'.cb.event.svr_name,
                 last'.cb.event.proc_name, IntToStr(last'.cb.event.line),
                 IntToStr(last'.cb.event.severity)>>
          /\ C27_Effect(last'.calls, last'.err, fdw_state', slot', baserel')
               \in C27_WithoutMessage(last'.op) ]_vars

C27_Witness ==
    /\ last.op = "tdsIterateForeignScan"
    /\ last.cb.handler = "tds_msg_handler"
    /\ last.cb.event.severity = 16
    /\ last.calls[last.cb.at].fn = "dbnextrow"
    /\ slot # NULL
    /\ Deref(fdw_state).row = 2

=============================================================================
